---- MODULE Spec2Model ----
(***************************************************************************)
(* Model of the design-system-icons Figma plugin: the SVG-to-React        *)
(* processor (svgr-processor.ts), the paths that submit icons to the      *)
(* build pipeline (main.ts, add-to-design-system-main.ts) and the UI's    *)
(* Add action (ui.tsx).                                                   *)
(*                                                                         *)
(* Strings the code inspects character by character (attribute values,    *)
(* icon names) are sequences of one-character strings.  Tag names and     *)
(* attribute names are atomic strings.  A markup text is a sequence of    *)
(* lexical tokens; the DOM strategy sees the element tree, the regex      *)
(* strategy sees only the token sequence.                                 *)
(***************************************************************************)
EXTENDS Integers, Sequences, FiniteSets, TLC

VARIABLES
    svgContent,     \* processSvgToReact: the markup argument of the last call
    iconName,       \* processSvgToReact: the name argument of the last call
    domAvailable,   \* whether `typeof DOMParser !== 'undefined'` in the call's realm
    result,         \* the value the last call returned (NoResult while idle)
    warning,        \* the "needs flattening" console warning of the last call
    selection,      \* host: figma.currentPage.selection, as icon nodes
    selectionChanges,       \* host: how often the user has changed the selection
    command,        \* which plugin command is running ("none": no plugin open)
    configValid,    \* validateGitHubConfig().isValid for this build
    lastSelectionId,        \* main: selection ids seen by the last poll
    lastProcessedIcons,     \* main: icons of the last processSelection run
    debouncePending,        \* main: the debounce timer of pollSelection is set
    getSelectedArmed,       \* main: the once(GET_SELECTED_ICONS) handler is registered
    addIconsArmed,          \* main: the once(ADD_ICONS) handler is registered
    toMain,         \* events emitted by the UI, not yet handled by main
    toUi,           \* events emitted by main, not yet handled by the UI
    uiIcons,        \* ui.tsx: the `icons` state of the Plugin component
    isAddingToDesignSystem, \* ui.tsx: state of the same name
    dispatched,     \* workflow-dispatch requests of the latest submission
    jsonString,     \* processIconsInChunks: JSON.stringify(iconPayload) of the chunk in hand
    btoaAvailable,  \* whether `typeof btoa !== 'undefined'` in the plugin's realm
    base64Payload,  \* processIconsInChunks: the `icons` input computed for the chunk
    outlineElement, \* strokeToOutline: the element argument of the last call
    outlinePath,    \* strokeToOutline: the value the last call returned
    flattenContent, \* flattenSvgPaths: the svgContent argument of the last call
    flattenDom,     \* flattenSvgPaths: whether DOMParser is defined in the call's realm
    flattenResult,  \* flattenSvgPaths: the value the last call returned
    chunkIcons,     \* processIconsInChunks: the icons argument of the last call
    chunksBuilt,    \* processIconsInChunks: the chunks array after the first loop
    chunkTally,     \* processIconsInChunks: requests sent, successCount, errorCount
    chunkEvent,     \* processIconsInChunks: the event emitted at the end
    hostNode,       \* processSelection: the node of the loop iteration in hand
    reportedIcon,   \* processSelection: the icon pushed for that node
    runs,           \* main: processSelection calls suspended at an exportAsync
    isFlattening,   \* ui.tsx: state of the same name
    showConfirmation        \* ui.tsx: state of the same name

svgVars == <<svgContent, iconName, domAvailable, result, warning>>
submitVars == <<selection, selectionChanges, command, configValid, lastSelectionId, lastProcessedIcons,
                debouncePending,
                getSelectedArmed, addIconsArmed, toMain, toUi, uiIcons,
                isAddingToDesignSystem, dispatched>>
base64Vars == <<jsonString, btoaAvailable, base64Payload>>
outlineVars == <<outlineElement, outlinePath>>
flattenVars == <<flattenContent, flattenDom, flattenResult>>
chunkVars == <<chunkIcons, chunksBuilt, chunkTally, chunkEvent>>
hostVars == <<hostNode, reportedIcon>>
sessionVars == <<runs, isFlattening, showConfirmation>>
pureVars == <<base64Vars, outlineVars, flattenVars, chunkVars, hostVars, sessionVars>>
exceptBase64 == <<svgVars, submitVars, outlineVars, flattenVars, chunkVars, hostVars, sessionVars>>
exceptOutline == <<svgVars, submitVars, base64Vars, flattenVars, chunkVars, hostVars, sessionVars>>
exceptFlatten == <<svgVars, submitVars, base64Vars, outlineVars, chunkVars, hostVars, sessionVars>>
exceptHost == <<svgVars, submitVars, base64Vars, outlineVars, flattenVars, chunkVars, sessionVars>>
exceptChunks == <<svgVars, submitVars, base64Vars, outlineVars, flattenVars, hostVars, sessionVars>>
vars == <<svgVars, submitVars, pureVars>>

----------------------------------------------------------------------------
(* Bounds of the model *)

\* Longest sequence of top-level elements in a model markup.
MaxElems == 2
\* Most tokens cut from the end of a markup text (0: complete text).
MaxCut == 2
\* Longest icon name checked by the identifier specification.
MaxNameLen == 4
\* Most icon nodes in one selection.
MaxSelection == 2
\* Most events waiting in one direction between main thread and UI.
MaxQueue == 1
\* Most changes of the selection by the user.
MaxChanges == 1
\* Most events, timers and suspended runs in flight when the user acts.
MaxPending == 2

----------------------------------------------------------------------------
(* Strings as character sequences *)

Str_none == <<"n","o","n","e">>
Str_transparent == <<"t","r","a","n","s","p","a","r","e","n","t">>
Str_rgba0 == <<"r","g","b","a","(","0",",","0",",","0",",","0",")">>
Str_url == <<"u","r","l","(">>
Str_hsl == <<"h","s","l","(">>
Str_rgb == <<"r","g","b","(">>
Str_currentColor == <<"c","u","r","r","e","n","t","C","o","l","o","r">>
Str_ffffff == <<"#","f","f","f","f","f","f">>
Str_white == <<"w","h","i","t","e">>
Str_fff == <<"#","f","f","f">>
Str_24 == <<"2","4">>
Str_helper == <<"h","e","l","p","e","r">>
Str_background == <<"b","a","c","k","g","r","o","u","n","d">>
Str_bg == <<"b","g">>
Str_Icon == <<"I","c","o","n">>
Str_defaultViewBox == <<"0"," ","0"," ","2","4"," ","2","4">>

\* String.prototype.startsWith
StartsWith(s, p) == Len(s) >= Len(p) /\ SubSeq(s, 1, Len(p)) = p

\* String.prototype.includes
Includes(s, p) == \E i \in 1..(Len(s) - Len(p) + 1) : SubSeq(s, i, i + Len(p) - 1) = p

\* toUpperCase / toLowerCase on the characters the model uses
UpperChar(c) ==
    CASE c = "a" -> "A" [] c = "b" -> "B" [] c = "g" -> "G" [] c = "i" -> "I"
      [] c = "r" -> "R" [] OTHER -> c

LowerChar(c) ==
    CASE c = "A" -> "a" [] c = "B" -> "b" [] c = "G" -> "g" [] c = "I" -> "i"
      [] c = "R" -> "r" [] OTHER -> c

toUpperCase(s) == [i \in 1..Len(s) |-> UpperChar(s[i])]
toLowerCase(s) == [i \in 1..Len(s) |-> LowerChar(s[i])]

----------------------------------------------------------------------------
(* getComponentName *)

\* String.prototype.split on a one-character separator: the segments, in order.
RECURSIVE SplitFrom(_, _, _, _)
SplitFrom(s, sep, i, cur) ==
    IF i > Len(s) THEN <<cur>>
    ELSE IF s[i] = sep THEN <<cur>> \o SplitFrom(s, sep, i + 1, <<>>)
    ELSE SplitFrom(s, sep, i + 1, Append(cur, s[i]))

Split(s, sep) == SplitFrom(s, sep, 1, <<>>)

\* Array.prototype.join("")
RECURSIVE JoinAll(_)
JoinAll(parts) == IF parts = <<>> THEN <<>> ELSE Head(parts) \o JoinAll(Tail(parts))

\* A capitalisation that also lower-cases the rest of the part
CapitalizeLower(part) ==
    IF part = <<>> THEN <<>> ELSE <<UpperChar(part[1])>> \o toLowerCase(Tail(part))

\* part.charAt(0).toUpperCase() + part.slice(1)
Capitalize(part) ==
    IF part = <<>> THEN <<>> ELSE <<UpperChar(part[1])>> \o Tail(part)

getComponentName(filename) ==
    LET parts == Split(filename, "-")
    IN JoinAll([i \in 1..Len(parts) |-> Capitalize(parts[i])]) \o Str_Icon

----------------------------------------------------------------------------
(* Markup: elements, documents, tokens *)

\* getAttribute returning null
Absent == <<"\\0">>


Attr(name, value) == [name |-> name, value |-> value]

\* form: "selfclosing" (<t .../>), "empty" (<t ...></t>), "children" (<t ...>kids</t>)
El(tag, attrs, form, kids) == [tag |-> tag, attrs |-> attrs, form |-> form, kids |-> kids]

OptAttr(name, value) == IF value = Absent THEN <<>> ELSE <<Attr(name, value)>>

Paint(fill, stroke) == OptAttr("fill", fill) \o OptAttr("stroke", stroke)

Size(w, h) == <<Attr("width", w), Attr("height", h)>>

Str_000000 == <<"#","0","0","0","0","0","0">>
Str_16 == <<"1","6">>
Str_urlA == <<"u","r","l","(","#","a",")">>
Str_hslA == <<"h","s","l","(","0",",","0","%",",","0","%",")">>
Str_rgbA == <<"r","g","b","(","0",",","0",",","0",")">>
Str_rgbaOpaque == <<"r","g","b","a","(","0",",","0",",","0",",","1",")">>
Str_noneish == <<"n","o","n","e","x">>
Str_BgId == <<"B","g","-","1">>
Str_viewBox16 == <<"0"," ","0"," ","1","6"," ","1","6">>

TitleChild == El("title", <<>>, "children", <<>>)

\* Paths and lines by paint: filled, bare, stroked, stroke="none".
PaintedShapes ==
    { El("path", Paint(Str_000000, Absent), "selfclosing", <<>>),
      El("path", Paint(Absent, Absent), "selfclosing", <<>>),
      El("path", Paint(Absent, Str_000000), "selfclosing", <<>>),
      El("path", Paint(Str_000000, Str_none), "selfclosing", <<>>),
      El("line", Paint(Absent, Absent), "selfclosing", <<>>),
      El("line", Paint(Absent, Str_000000), "selfclosing", <<>>) }

\* Circles, one per kind of paint value.
ColouredShapes ==
    { El("circle", Paint(fs[1], fs[2]), "selfclosing", <<>>) :
        fs \in { <<Str_000000, Absent>>, <<Absent, Absent>>,
                 <<Str_transparent, Str_transparent>>, <<Str_rgba0, Str_none>>,
                 <<Str_urlA, Absent>>, <<Str_hslA, Str_rgbA>>,
                 <<Str_rgbaOpaque, Absent>>, <<Str_noneish, Absent>> } }

\* Rectangles: helpers (white, 24x24) and real geometry.
Rectangles ==
    { El("rect", Size(Str_16, Str_16) \o Paint(Str_ffffff, Absent), "selfclosing", <<>>),
      El("rect", Size(Str_24, Str_24) \o Paint(Str_000000, Absent), "selfclosing", <<>>),
      El("rect", Size(Str_16, Str_16) \o Paint(Str_000000, Absent), "selfclosing", <<>>) }

\* Another supported tag, a helper-named element, a non-self-closing shape,
\* a shape with a child element, a group around a shape.
StructuredElems ==
    { El("ellipse", Paint(Str_000000, Absent), "selfclosing", <<>>),
      El("path", <<Attr("id", Str_BgId)>> \o Paint(Str_000000, Absent), "selfclosing", <<>>),
      El("path", Paint(Str_000000, Absent), "empty", <<>>),
      El("path", Paint(Str_000000, Absent), "children", <<TitleChild>>),
      El("g", <<>>, "children",
         <<El("path", Paint(Str_000000, Absent), "selfclosing", <<>>)>>) }

Elements == PaintedShapes \cup ColouredShapes \cup Rectangles \cup StructuredElems

ElemSeqs == UNION { [1..n -> Elements] : n \in 0..MaxElems }

\* How a text is wrapped: <<wrapper, viewBox, tokens cut from the end>>.  A
\* complete <svg> text with or without a viewBox, a truncated <svg> text, and
\* top-level elements without an <svg> root.
Wrappers ==
    { <<"svg", v, 0>> : v \in {Absent, Str_viewBox16} }
    \cup { <<"svg", Absent, c>> : c \in 1..MaxCut }
    \cup { <<"bare", Absent, 0>> }

\* The markup texts of the model.
RealMarkups ==
    { [wrap |-> w[1], viewBox |-> w[2], elems |-> es, cut |-> w[3]] :
        w \in Wrappers, es \in ElemSeqs }

\* A run-time argument that is not a string (the parameter's static type is
\* erased by compilation): calling .match on it raises a TypeError.
NotAString == [wrap |-> "notastring", viewBox |-> Absent, elems |-> <<>>, cut |-> 0]

Tok(k, a, b) == [k |-> k, a |-> a, b |-> b]

AttrTokens(attrs) == [i \in 1..Len(attrs) |-> Tok("attr", attrs[i].name, attrs[i].value)]

\* The text of one element: <tag attrs/> or <tag attrs>kids</tag>.
RECURSIVE ElemTokens(_)
RECURSIVE KidsTokens(_)
KidsTokens(kids) ==
    IF kids = <<>> THEN <<>> ELSE ElemTokens(Head(kids)) \o KidsTokens(Tail(kids))

ElemTokens(e) ==
    <<Tok("open", e.tag, <<>>)>> \o AttrTokens(e.attrs)
    \o (IF e.form = "selfclosing"
        THEN <<Tok("sc", "", <<>>)>>
        ELSE <<Tok("gt", "", <<>>)>> \o KidsTokens(e.kids) \o <<Tok("close", e.tag, <<>>)>>)

\* The text of a markup, `cut` tokens short of its end.
MarkupText(m) ==
    LET body == KidsTokens(m.elems)
        full == IF m.wrap = "svg"
                THEN <<Tok("open", "svg", <<>>)>> \o AttrTokens(OptAttr("viewBox", m.viewBox))
                     \o <<Tok("gt", "", <<>>)>> \o body \o <<Tok("close", "svg", <<>>)>>
                ELSE body
        keep == IF m.cut >= Len(full) THEN 0 ELSE Len(full) - m.cut
    IN SubSeq(full, 1, keep)

----------------------------------------------------------------------------
(* Structured (DOM) strategy *)

NoSvgElement == [found |-> FALSE, viewBox |-> Absent, children |-> <<>>]

\* new DOMParser().parseFromString(svgContent, 'image/svg+xml').querySelector('svg'):
\* a text that is not well-formed XML parses to an error document, which has
\* no svg element; neither has a well-formed text without an <svg> wrapper.
querySelectorSvg(m) ==
    IF m.wrap = "svg" /\ m.cut = 0
    THEN [found |-> TRUE, viewBox |-> m.viewBox, children |-> m.elems]
    ELSE NoSvgElement

\* Element.getAttribute: the first attribute of that name, or null
getAttribute(e, name) ==
    LET hits == SelectSeq(e.attrs, LAMBDA a : a.name = name)
    IN IF hits = <<>> THEN Absent ELSE hits[1].value

hasAttribute(e, name) == \E i \in 1..Len(e.attrs) : e.attrs[i].name = name

\* element.children.length
childCount(e) == Len(e.kids)

HelperWord(s) ==
    Includes(s, Str_helper) \/ Includes(s, Str_background) \/ Includes(s, Str_bg)

\* A helper test that ignores the size of a rectangle
isHelperElementNoSize(element) ==
    \/ /\ element.tag = "rect"
       /\ getAttribute(element, "fill") \in {Str_ffffff, Str_white, Str_fff}
    \/ LET id == IF hasAttribute(element, "id")
                 THEN toLowerCase(getAttribute(element, "id")) ELSE <<>>
           className == IF hasAttribute(element, "class")
                        THEN toLowerCase(getAttribute(element, "class")) ELSE <<>>
       IN HelperWord(id) \/ HelperWord(className)

isHelperElement(element) ==
    \/ /\ element.tag = "rect"
       /\ \/ getAttribute(element, "fill") \in {Str_ffffff, Str_white, Str_fff}
          \/ /\ getAttribute(element, "width") = Str_24
             /\ getAttribute(element, "height") = Str_24
    \/ LET id == IF hasAttribute(element, "id")
                 THEN toLowerCase(getAttribute(element, "id")) ELSE <<>>
           className == IF hasAttribute(element, "class")
                        THEN toLowerCase(getAttribute(element, "class")) ELSE <<>>
       IN HelperWord(id) \/ HelperWord(className)

isMainIconElement(element) ==
    \/ element.tag = "path"
    \/ element.tag \in {"circle", "ellipse", "line", "polygon", "polyline"}

\* mainElements, with the fallback to every non-helper element
DomMainElements(svgElement) ==
    LET main == SelectSeq(svgElement.children,
                          LAMBDA e : ~isHelperElement(e) /\ isMainIconElement(e))
    IN IF Len(main) = 0
       THEN SelectSeq(svgElement.children, LAMBDA e : ~isHelperElement(e))
       ELSE main

DomHasStroke(element) ==
    /\ hasAttribute(element, "stroke")
    /\ getAttribute(element, "stroke") # Str_none
    /\ getAttribute(element, "stroke") # Str_transparent

DomHasFill(element) ==
    /\ hasAttribute(element, "fill")
    /\ getAttribute(element, "fill") # Str_none
    /\ getAttribute(element, "fill") # Str_transparent

Range(s) == { s[i] : i \in 1..Len(s) }

DomHasStrokes(mainElements) == \E e \in Range(mainElements) : DomHasStroke(e)

DomAllElementsProperlyOutlined(mainElements) ==
    \A e \in Range(mainElements) :
        /\ ~DomHasStroke(e)
        /\ (e.tag \in {"path", "circle", "ellipse", "rect", "polygon", "polyline"}
              => (DomHasFill(e) \/ DomHasStroke(e)))

DomHasNestedElements(mainElements) == \E e \in Range(mainElements) : childCount(e) > 0

DomIsSinglePath(mainElements) ==
    LET pathElements == SelectSeq(mainElements, LAMBDA e : e.tag = "path")
        isSinglePathElement == Len(pathElements) = 1 /\ Len(mainElements) = 1
        isMultipleProperlyOutlinedElements ==
            /\ Len(mainElements) > 1
            /\ DomAllElementsProperlyOutlined(mainElements)
            /\ ~DomHasStrokes(mainElements)
    IN (isSinglePathElement \/ isMultipleProperlyOutlinedElements)
       /\ ~DomHasNestedElements(mainElements)

\* The SVGR colour rewrite of one attribute value (structured strategy)
DomRewriteValue(name, value) ==
    IF /\ name \in {"fill", "stroke"}
       /\ value # Str_none /\ value # Str_transparent /\ value # Str_rgba0
       /\ ~StartsWith(value, Str_url) /\ ~StartsWith(value, Str_hsl)
       /\ ~StartsWith(value, Str_rgb)
    THEN Str_currentColor
    ELSE value

\* An emitted child element: its tag, how it is laid out ("multiline": one
\* item per line; "inline": <tag items />; "raw": the matched text as is) and
\* the items that follow the tag.
Emitted(tag, layout, items) == [tag |-> tag, layout |-> layout, items |-> items]

DomEmit(element) ==
    LET attributes == [i \in 1..Len(element.attrs) |->
                         Tok("attr", element.attrs[i].name,
                             DomRewriteValue(element.attrs[i].name, element.attrs[i].value))]
    IN Emitted(element.tag, IF element.tag = "path" THEN "multiline" ELSE "inline",
               attributes)

DomChildElements(mainElements) == [i \in 1..Len(mainElements) |-> DomEmit(mainElements[i])]

----------------------------------------------------------------------------
(* Text-pattern (regex) strategy *)

\* Whether the text name="..." ends with the text key="...": the attribute
\* names of the model, of which only stroke-width has another as a suffix.
NameEndsWith(name, key) == name = key \/ (name = "stroke-width" /\ key = "width")

\* svgContent.match(/viewBox="([^"]+)"/): the first non-empty viewBox value
RegexViewBox(text) ==
    LET hits == SelectSeq(text, LAMBDA t : t.k = "attr" /\ NameEndsWith(t.a, "viewBox")
                                           /\ t.b # <<>>)
    IN IF hits = <<>> THEN Absent ELSE hits[1].b

\* The first token after position i that contains a '>' character (0: none)
NextGt(text, i) ==
    LET js == { j \in (i + 1)..Len(text) : text[j].k \in {"gt", "sc", "close"} }
    IN IF js = {} THEN 0 ELSE CHOOSE j \in js : \A k \in js : j <= k

\* svgContent.match(/<tag[^>]*\/>/g) for the tags given: the matched texts, left to right
RECURSIVE MatchFrom(_, _, _)
MatchFrom(text, tags, i) ==
    IF i > Len(text) THEN <<>>
    ELSE IF text[i].k = "open" /\ text[i].a \in tags
    THEN LET j == NextGt(text, i)
         IN IF j # 0 /\ text[j].k = "sc"
            THEN <<SubSeq(text, i, j)>> \o MatchFrom(text, tags, j + 1)
            ELSE MatchFrom(text, tags, i + 1)
    ELSE MatchFrom(text, tags, i + 1)

MatchAll(text, tags) == MatchFrom(text, tags, 1)

\* element.includes('key="value"')
TextIncludesAttr(element, key, value) ==
    \E i \in 1..Len(element) :
        element[i].k = "attr" /\ NameEndsWith(element[i].a, key) /\ element[i].b = value

\* element.includes('key=')
TextIncludesName(element, key) ==
    \E i \in 1..Len(element) : element[i].k = "attr" /\ NameEndsWith(element[i].a, key)

\* element.startsWith('<tag')
TextTag(element) == element[1].a

RegexIsHelperRect(element) ==
    \/ TextIncludesAttr(element, "fill", Str_ffffff)
    \/ TextIncludesAttr(element, "fill", Str_white)
    \/ TextIncludesAttr(element, "fill", Str_fff)
    \/ /\ TextIncludesAttr(element, "width", Str_24)
       /\ TextIncludesAttr(element, "height", Str_24)

\* Variant: the circles ahead of the paths
RegexAllElementsCirclesFirst(text) ==
    LET pathMatches == MatchAll(text, {"path"})
        circleMatches == MatchAll(text, {"circle"})
        rectMatches == MatchAll(text, {"rect"})
        otherMatches == MatchAll(text, {"ellipse", "line", "polygon", "polyline"})
        filteredRectMatches == SelectSeq(rectMatches, LAMBDA e : ~RegexIsHelperRect(e))
    IN circleMatches \o pathMatches \o filteredRectMatches \o otherMatches

\* allElements: paths, then circles, then the rectangles kept, then the others
RegexAllElements(text) ==
    LET pathMatches == MatchAll(text, {"path"})
        circleMatches == MatchAll(text, {"circle"})
        rectMatches == MatchAll(text, {"rect"})
        otherMatches == MatchAll(text, {"ellipse", "line", "polygon", "polyline"})
        filteredRectMatches == SelectSeq(rectMatches, LAMBDA e : ~RegexIsHelperRect(e))
    IN pathMatches \o circleMatches \o filteredRectMatches \o otherMatches

RegexHasStroke(element) ==
    /\ TextIncludesName(element, "stroke")
    /\ ~TextIncludesAttr(element, "stroke", Str_none)
    /\ ~TextIncludesAttr(element, "stroke", Str_transparent)

RegexHasFill(element) ==
    /\ TextIncludesName(element, "fill")
    /\ ~TextIncludesAttr(element, "fill", Str_none)
    /\ ~TextIncludesAttr(element, "fill", Str_transparent)

RegexHasStrokes(allElements) == \E e \in Range(allElements) : RegexHasStroke(e)

RegexAllElementsProperlyOutlined(allElements) ==
    \A e \in Range(allElements) :
        /\ ~RegexHasStroke(e)
        /\ (TextTag(e) \in {"path", "circle", "ellipse", "rect", "polygon", "polyline"}
              => (RegexHasFill(e) \/ RegexHasStroke(e)))

RegexIsSinglePath(allElements) ==
    LET pathElements == SelectSeq(allElements, LAMBDA e : TextTag(e) = "path")
        isSinglePathElement == Len(pathElements) = 1 /\ Len(allElements) = 1
        isMultipleProperlyOutlinedElements ==
            /\ Len(allElements) > 1
            /\ RegexAllElementsProperlyOutlined(allElements)
            /\ ~RegexHasStrokes(allElements)
    IN isSinglePathElement \/ isMultipleProperlyOutlinedElements

\* element.replace(/(fill|stroke)="(?!none|transparent|rgba\(0,0,0,0\)|url\(|hsl\(|rgb\()[^"]*"/g,
\*                 '$1="currentColor"') on one attribute
RegexRewriteValue(name, value) ==
    IF /\ (NameEndsWith(name, "fill") \/ NameEndsWith(name, "stroke"))
       /\ ~StartsWith(value, Str_none) /\ ~StartsWith(value, Str_transparent)
       /\ ~StartsWith(value, Str_rgba0) /\ ~StartsWith(value, Str_url)
       /\ ~StartsWith(value, Str_hsl) /\ ~StartsWith(value, Str_rgb)
    THEN Str_currentColor
    ELSE value

RegexEmit(element) ==
    LET inner == SubSeq(element, 2, Len(element) - 1)
        transformed == [i \in 1..Len(inner) |->
                          IF inner[i].k = "attr"
                          THEN Tok("attr", inner[i].a, RegexRewriteValue(inner[i].a, inner[i].b))
                          ELSE inner[i]]
    IN Emitted(TextTag(element), IF TextTag(element) = "path" THEN "multiline" ELSE "raw",
               transformed)

RegexChildElements(allElements) == [i \in 1..Len(allElements) |-> RegexEmit(allElements[i])]

----------------------------------------------------------------------------
(* processSvgToReact *)

NoWarning == [strategy |-> "none", elements |-> 0, hasStrokes |-> FALSE, nested |-> "unreported"]

Warning(strategy, n, hasStrokes, nested) ==
    [strategy |-> strategy, elements |-> n, hasStrokes |-> hasStrokes, nested |-> nested]

\* The <svg ...> shell around the child elements: "jsx" carries the template
\* placeholders ({size || 24}, {className}, ref={ref}, {...props}), "preview"
\* has width="24" height="24" and none of them.
Shell(kind, viewBox, childElements) ==
    [kind |-> kind, viewBox |-> viewBox, children |-> childElements]

\* The component source: licence header, imports, banner comment, memo wrapper
\* around the jsx, displayName and the two exports.
ReactCode(banner, componentName, jsx) ==
    [banner |-> banner, componentName |-> componentName, body |-> jsx]

Str_placeholderD == <<"M","1","2"," ","2","L","2"," ","7">>

PlaceholderPath == Emitted("path", "inline", <<Tok("attr", "d", Str_placeholderD)>>)

Return(componentName, reactCode, jsx, previewSvg, isSinglePath) ==
    [componentName |-> componentName, reactCode |-> reactCode, jsx |-> jsx,
     previewSvg |-> previewSvg, isSinglePath |-> isSinglePath]

\* A fallback that reports the placeholder as a single path
FallbackResultCanonical(name) ==
    LET componentName == getComponentName(name)
        fallbackJsx == Shell("jsx", Str_defaultViewBox, <<PlaceholderPath>>)
    IN Return(componentName,
              ReactCode("Auto-generated icon component (fallback)", componentName, fallbackJsx),
              fallbackJsx, fallbackJsx, TRUE)

\* The catch block of processSvgToReact
FallbackResult(name) ==
    LET componentName == getComponentName(name)
        fallbackJsx == Shell("jsx", Str_defaultViewBox, <<PlaceholderPath>>)
    IN Return(componentName,
              ReactCode("Auto-generated icon component (fallback)", componentName, fallbackJsx),
              fallbackJsx, fallbackJsx, FALSE)

\* Variant: the structured strategy whenever DOMParser is available, also
\* for a document without an svg root.
StrategyUsedByEnvironment(m, dom) ==
    IF m = NotAString THEN "catch"
    ELSE IF dom THEN "dom"
    ELSE "regex"

\* The strategy that computes the result: "dom", "regex", or "catch" when the
\* regex stage raises.
StrategyUsed(m, dom) ==
    IF dom /\ querySelectorSvg(m).found THEN "dom"
    ELSE IF m = NotAString THEN "catch"
    ELSE "regex"

\* What one call returns.
processSvgToReact(m, name, dom) ==
    LET strategy == StrategyUsed(m, dom)
        svgElement == querySelectorSvg(m)
        mainElements == DomMainElements(svgElement)
        allElements == RegexAllElements(MarkupText(m))
        vb == IF strategy = "dom" THEN svgElement.viewBox ELSE RegexViewBox(MarkupText(m))
        viewBox == IF vb = Absent \/ vb = <<>> THEN Str_defaultViewBox ELSE vb
        childElements == IF strategy = "dom" THEN DomChildElements(mainElements)
                         ELSE RegexChildElements(allElements)
        isSinglePath == IF strategy = "dom" THEN DomIsSinglePath(mainElements)
                        ELSE RegexIsSinglePath(allElements)
        componentName == getComponentName(name)
        jsx == Shell("jsx", viewBox, childElements)
        previewSvg == Shell("preview", viewBox, childElements)
    IN IF strategy = "catch" THEN FallbackResult(name)
       ELSE Return(componentName,
                   ReactCode("Auto-generated icon component", componentName, jsx),
                   jsx, previewSvg, isSinglePath)

\* console.warn(`Icon "..." needs flattening ...`) of one call
processSvgWarning(m, dom) ==
    LET strategy == StrategyUsed(m, dom)
        mainElements == DomMainElements(querySelectorSvg(m))
        allElements == RegexAllElements(MarkupText(m))
    IN IF strategy = "dom" /\ ~DomIsSinglePath(mainElements) /\ Len(mainElements) > 0
       THEN Warning("dom", Len(mainElements), DomHasStrokes(mainElements),
                    IF DomHasNestedElements(mainElements) THEN "true" ELSE "false")
       ELSE IF strategy = "regex" /\ ~RegexIsSinglePath(allElements) /\ Len(allElements) > 0
       THEN Warning("regex", Len(allElements), RegexHasStrokes(allElements), "unreported")
       ELSE NoWarning

----------------------------------------------------------------------------
(* Calls of processSvgToReact *)

NoResult == Return(<<>>, ReactCode("none", <<>>, Shell("none", <<>>, <<>>)),
                   Shell("none", <<>>, <<>>), Shell("none", <<>>, <<>>), FALSE)

NoMarkup == [wrap |-> "none", viewBox |-> Absent, elems |-> <<>>, cut |-> 0]

\* Arguments a caller can pass as svgContent
SvgInputs == RealMarkups \cup {NotAString}

NameChars == {"a", "B", "-"}

Names == UNION { [1..n -> NameChars] : n \in 0..MaxNameLen }

Str_arrowRight == <<"a","r","r","o","w","-","r","i","g","h","t">>

\* Names used where the markup varies
SampleNames == {Str_arrowRight}

\* Markups used where the name varies: a canonical icon, a stroked pair, and
\* a non-string argument
SampleMarkups ==
    { [wrap |-> "svg", viewBox |-> Str_viewBox16, cut |-> 0,
       elems |-> <<El("path", Paint(Str_000000, Absent), "selfclosing", <<>>)>>],
      [wrap |-> "svg", viewBox |-> Absent, cut |-> 0,
       elems |-> <<El("path", Paint(Absent, Str_000000), "selfclosing", <<>>),
                   El("circle", Paint(Absent, Str_000000), "selfclosing", <<>>)>>],
      NotAString }

SvgIdle ==
    /\ svgContent = NoMarkup
    /\ iconName = <<>>
    /\ domAvailable = FALSE
    /\ result = NoResult
    /\ warning = NoWarning

\* No chunk is being encoded and strokeToOutline is not running
NoString == <<-1>>

NoElement == [tag |-> "none"]

NotCalled == [kind |-> "not called"]

\* One slot for every processSelection call that can be suspended at a time
RunSlots == MaxPending + 2

NoRun == [nodes |-> <<>>, next |-> 0]

IdleRuns == [k \in 1..RunSlots |-> NoRun]

PureIdle ==
    /\ jsonString = NoString
    /\ btoaAvailable = FALSE
    /\ base64Payload = NoString
    /\ outlineElement = NoElement
    /\ outlinePath = NotCalled
    /\ flattenContent = NoMarkup
    /\ flattenDom = FALSE
    /\ flattenResult = NotCalled
    /\ chunkIcons = <<>>
    /\ chunksBuilt = <<>>
    /\ chunkTally = NotCalled
    /\ chunkEvent = NotCalled
    /\ hostNode = NoElement
    /\ reportedIcon = NotCalled
    /\ runs = IdleRuns
    /\ isFlattening = FALSE
    /\ showConfirmation = FALSE

\* No plugin command is running
SubmitIdle ==
    /\ selectionChanges = 0
    /\ command = "none"
    /\ lastSelectionId = <<>>
    /\ lastProcessedIcons = <<>>
    /\ debouncePending = FALSE
    /\ getSelectedArmed = FALSE
    /\ addIconsArmed = FALSE
    /\ toMain = <<>>
    /\ toUi = <<>>
    /\ uiIcons = <<>>
    /\ isAddingToDesignSystem = FALSE
    /\ dispatched = <<>>

Init == SvgIdle /\ SubmitIdle /\ PureIdle /\ selection = <<>> /\ configValid = TRUE

\* One call processSvgToReact(m, name) in a realm with or without DOMParser
Call(m, name, dom) ==
    /\ result = NoResult
    /\ svgContent' = m
    /\ iconName' = name
    /\ domAvailable' = dom
    /\ result' = processSvgToReact(m, name, dom)
    /\ warning' = processSvgWarning(m, dom)
    /\ UNCHANGED <<submitVars, pureVars>>

\* The caller is done with the returned value
Discard ==
    /\ result # NoResult
    /\ svgContent' = NoMarkup
    /\ iconName' = <<>>
    /\ domAvailable' = FALSE
    /\ result' = NoResult
    /\ warning' = NoWarning
    /\ UNCHANGED <<submitVars, pureVars>>

CallAnyMarkup ==
    /\ result = NoResult
    /\ \E m \in SvgInputs, name \in SampleNames, dom \in BOOLEAN : Call(m, name, dom)

CallAnyName ==
    /\ result = NoResult
    /\ \E m \in SampleMarkups, name \in Names, dom \in BOOLEAN : Call(m, name, dom)

Next == CallAnyMarkup \/ Discard

Spec == Init /\ [][Next]_vars

NextName == CallAnyName \/ Discard

SpecName == Init /\ [][NextName]_vars

----------------------------------------------------------------------------
(* Submitting icons: main thread, UI and the standalone command *)

MAX_PAYLOAD_SIZE == 55000

MaxJsonLength == 60000

\* A node of the host document that getIconNodes accepts.  `size` is the
\* length of JSON.stringify({name, svg, aliases}) for the node's export.
IconNode(id, name, type, needsFlattening, svg, size) ==
    [id |-> id, name |-> name, type |-> type, needsFlattening |-> needsFlattening,
     svg |-> svg, size |-> size]

SvgOf(elems) == [wrap |-> "svg", viewBox |-> Str_viewBox16, elems |-> elems, cut |-> 0]

FilledPath == El("path", Paint(Str_000000, Absent), "selfclosing", <<>>)

StrokedPath == El("path", Paint(Absent, Str_000000), "selfclosing", <<>>)

StrokedCircle == El("circle", Paint(Absent, Str_000000), "selfclosing", <<>>)

\* a flattened frame; a frame of two stroked vectors; a stroked vector whose
\* export is too long for one request
IconNodes ==
    { IconNode("1:1", <<"a">>, "FRAME", FALSE, SvgOf(<<FilledPath>>), 20000),
      IconNode("1:2", <<"a", "-", "B">>, "FRAME", TRUE,
               SvgOf(<<StrokedPath, StrokedCircle>>), 30000),
      IconNode("1:3", <<"B">>, "VECTOR", TRUE, SvgOf(<<StrokedPath>>), 61000) }

Injective(f) == \A i, j \in DOMAIN f : f[i] = f[j] => i = j

\* What figma.currentPage.selection can hold
Selections ==
    UNION { {f \in [1..n -> IconNodes] : Injective(f)} : n \in 0..MaxSelection }

IconData(id, name, size, isSinglePath) ==
    [id |-> id, name |-> name, size |-> size, isSinglePath |-> isSinglePath]

\* Variant: the host's judgement overrides the flag of every node
SelectionFlagAlwaysOverridden(node, dom) ==
    LET processed == processSvgToReact(node.svg, node.name, dom).isSinglePath
    IN IF node.needsFlattening THEN FALSE ELSE processed

\* processSelection: the flag of one icon, with the host's override
SelectionFlag(node, dom) ==
    LET processed == processSvgToReact(node.svg, node.name, dom).isSinglePath
        isSingleNode == node.type \in {"VECTOR", "BOOLEAN_OPERATION", "LINE"}
    IN IF node.needsFlattening /\ (~isSingleNode \/ ~processed) THEN FALSE ELSE processed

\* processSelection: the icons it emits for a selection
processSelection(nodes, dom) ==
    [i \in 1..Len(nodes) |->
        IconData(nodes[i].id, nodes[i].name, nodes[i].size, SelectionFlag(nodes[i], dom))]

\* addIconsToDesignSystem: the icons it collects for a selection
CollectedIcons(nodes, dom) ==
    [i \in 1..Len(nodes) |->
        IconData(nodes[i].id, nodes[i].name, nodes[i].size,
                 processSvgToReact(nodes[i].svg, nodes[i].name, dom).isSinglePath)]

RECURSIVE ChunkFrom(_, _, _, _, _)
ChunkFrom(icons, i, chunks, currentChunk, currentChunkSize) ==
    IF i > Len(icons)
    THEN IF Len(currentChunk) > 0 THEN Append(chunks, currentChunk) ELSE chunks
    ELSE LET estimatedSize == icons[i].size
         IN IF currentChunkSize + estimatedSize > MAX_PAYLOAD_SIZE /\ Len(currentChunk) > 0
            THEN ChunkFrom(icons, i + 1, Append(chunks, currentChunk),
                           <<icons[i]>>, estimatedSize)
            ELSE ChunkFrom(icons, i + 1, chunks,
                           Append(currentChunk, icons[i]), currentChunkSize + estimatedSize)

\* Variant: the chunk in hand at the end of the loop is not added
BuildChunksWithoutLast(icons) ==
    LET chunks == ChunkFrom(icons, 1, <<>>, <<>>, 0)
    IN SubSeq(chunks, 1, Len(chunks) - 1)

\* Variant: every icon in one chunk, whatever its size
BuildChunksUnbounded(icons) == IF icons = <<>> THEN <<>> ELSE <<icons>>

BuildChunks(icons) == ChunkFrom(icons, 1, <<>>, <<>>, 0)

RECURSIVE SumSizes(_)
SumSizes(chunk) == IF chunk = <<>> THEN 0 ELSE Head(chunk).size + SumSizes(Tail(chunk))

\* Length of JSON.stringify of a chunk's payload array
JsonLength(chunk) == 2 + SumSizes(chunk) + (Len(chunk) - 1)

Outcomes == {"ok", "notok", "throw"}

Request(icons, outcome) == [icons |-> icons, outcome |-> outcome]

Tally(requests, successCount, errorCount) ==
    [requests |-> requests, successCount |-> successCount, errorCount |-> errorCount]

\* The loop over the chunks: outcome[i] is what fetch does for chunk i
RECURSIVE SendFrom(_, _, _, _)
SendFrom(chunks, outcome, i, t) ==
    IF i > Len(chunks) THEN t
    ELSE IF JsonLength(chunks[i]) > MaxJsonLength
    THEN SendFrom(chunks, outcome, i + 1,
                  Tally(t.requests, t.successCount, t.errorCount + Len(chunks[i])))
    ELSE IF outcome[i] = "ok"
    THEN SendFrom(chunks, outcome, i + 1,
                  Tally(Append(t.requests, Request(chunks[i], outcome[i])),
                        t.successCount + Len(chunks[i]), t.errorCount))
    ELSE SendFrom(chunks, outcome, i + 1,
                  Tally(Append(t.requests, Request(chunks[i], outcome[i])),
                        t.successCount, t.errorCount + Len(chunks[i])))

\* Variant: a chunk that is too long is dropped without being counted
SendChunksOversizeUncounted(icons, outcome) ==
    SendFrom(SelectSeq(BuildChunks(icons), LAMBDA c : JsonLength(c) <= MaxJsonLength),
             outcome, 1, Tally(<<>>, 0, 0))

SendChunks(icons, outcome) == SendFrom(BuildChunks(icons), outcome, 1, Tally(<<>>, 0, 0))

Event(type, icons, iconCount) == [type |-> type, icons |-> icons, iconCount |-> iconCount]

\* The event processIconsInChunks ends with
FinalEvent(t) ==
    IF t.successCount > 0
    THEN Event("SHOW_SUCCESS", <<>>, t.successCount)
    ELSE Event("SHOW_ERROR", <<>>, t.errorCount)

FetchOutcomes == [1..MaxSelection -> Outcomes]

UiClosed ==
    /\ toMain' = <<>>
    /\ toUi' = <<>>
    /\ uiIcons' = <<>>
    /\ isAddingToDesignSystem' = FALSE

MainClosed ==
    /\ lastSelectionId' = <<>>
    /\ lastProcessedIcons' = <<>>
    /\ debouncePending' = FALSE
    /\ getSelectedArmed' = FALSE
    /\ addIconsArmed' = FALSE

\* The plugin's main thread has no DOMParser
InitSubmit ==
    /\ SvgIdle
    /\ SubmitIdle
    /\ PureIdle
    /\ selection \in Selections
    /\ configValid \in BOOLEAN

\* The user changes the selection in the host document
SelectionChange ==
    /\ selectionChanges < MaxChanges
    /\ selectionChanges' = selectionChanges + 1
    /\ \E sel \in Selections : sel # selection /\ selection' = sel
    /\ UNCHANGED <<pureVars, svgVars, command, configValid, lastSelectionId, lastProcessedIcons,
                   debouncePending, getSelectedArmed, addIconsArmed, toMain, toUi,
                   uiIcons, isAddingToDesignSystem, dispatched>>

\* The design-system-icons command starts: main registers its handlers, the
\* UI mounts and requests the selected icons
OpenIconsPlugin ==
    /\ command = "none"
    /\ command' = "design-system-icons"
    /\ lastSelectionId' = <<>>
    /\ lastProcessedIcons' = <<>>
    /\ debouncePending' = FALSE
    /\ getSelectedArmed' = TRUE
    /\ addIconsArmed' = TRUE
    /\ toMain' = <<Event("GET_SELECTED_ICONS", <<>>, 0)>>
    /\ toUi' = <<>>
    /\ uiIcons' = <<>>
    /\ isAddingToDesignSystem' = FALSE
    /\ dispatched' = <<>>
    /\ UNCHANGED <<pureVars, svgVars, selection, selectionChanges, configValid>>

Ids(nodes) == [i \in 1..Len(nodes) |-> nodes[i].id]

\* pollSelection sees a changed selection and (re)starts the debounce timer
PollSelection ==
    /\ command = "design-system-icons"
    /\ Ids(selection) # lastSelectionId
    /\ lastSelectionId' = Ids(selection)
    /\ debouncePending' = TRUE
    /\ UNCHANGED <<pureVars, svgVars, selection, selectionChanges, command, configValid, lastProcessedIcons,
                   getSelectedArmed, addIconsArmed, toMain, toUi, uiIcons,
                   isAddingToDesignSystem, dispatched>>

\* The debounce timer fires: an empty response if there were icons, then
\* processSelection
DebounceFire ==
    /\ command = "design-system-icons"
    /\ debouncePending
    /\ Len(toUi) < MaxQueue
    /\ debouncePending' = FALSE
    /\ LET icons == processSelection(selection, domAvailable)
       IN /\ lastProcessedIcons' = icons
          /\ toUi' = toUi
                     \o (IF Len(lastProcessedIcons) > 0
                         THEN <<Event("GET_SELECTED_ICONS", <<>>, 0)>> ELSE <<>>)
                     \o <<Event("GET_SELECTED_ICONS", icons, 0)>>
    /\ UNCHANGED <<pureVars, svgVars, selection, selectionChanges, command, configValid, lastSelectionId,
                   getSelectedArmed, addIconsArmed, toMain, uiIcons,
                   isAddingToDesignSystem, dispatched>>

\* main: the once(GET_SELECTED_ICONS) handler
MainGetSelectedIcons ==
    /\ command = "design-system-icons"
    /\ toMain # <<>>
    /\ Head(toMain).type = "GET_SELECTED_ICONS"
    /\ getSelectedArmed
    /\ Len(toUi) < MaxQueue
    /\ getSelectedArmed' = FALSE
    /\ toMain' = Tail(toMain)
    /\ LET icons == processSelection(selection, domAvailable)
       IN /\ lastProcessedIcons' = icons
          /\ toUi' = Append(toUi, Event("GET_SELECTED_ICONS", icons, 0))
    /\ UNCHANGED <<pureVars, svgVars, selection, selectionChanges, command, configValid, lastSelectionId,
                   debouncePending, addIconsArmed, uiIcons, isAddingToDesignSystem,
                   dispatched>>

\* main: the once(ADD_ICONS) handler
MainAddIcons ==
    /\ command = "design-system-icons"
    /\ toMain # <<>>
    /\ Head(toMain).type = "ADD_ICONS"
    /\ addIconsArmed
    /\ Len(toUi) < MaxQueue
    /\ addIconsArmed' = FALSE
    /\ toMain' = Tail(toMain)
    /\ IF ~configValid
       THEN /\ toUi' = Append(toUi, Event("SHOW_ERROR", <<>>, 0))
            /\ UNCHANGED dispatched
       ELSE \E outcome \in FetchOutcomes :
               LET t == SendChunks(Head(toMain).icons, outcome)
               IN /\ dispatched' = t.requests
                  /\ toUi' = Append(toUi, FinalEvent(t))
    /\ UNCHANGED <<pureVars, svgVars, selection, selectionChanges, command, configValid, lastSelectionId,
                   lastProcessedIcons, debouncePending, getSelectedArmed, uiIcons,
                   isAddingToDesignSystem>>

\* main: an event whose once handler has already run has no listener
MainDropEvent ==
    /\ command = "design-system-icons"
    /\ toMain # <<>>
    /\ \/ Head(toMain).type = "GET_SELECTED_ICONS" /\ ~getSelectedArmed
       \/ Head(toMain).type = "ADD_ICONS" /\ ~addIconsArmed
    /\ toMain' = Tail(toMain)
    /\ UNCHANGED <<pureVars, svgVars, selection, selectionChanges, command, configValid, lastSelectionId,
                   lastProcessedIcons, debouncePending, getSelectedArmed, addIconsArmed,
                   toUi, uiIcons, isAddingToDesignSystem, dispatched>>

\* UI: the GET_SELECTED_ICONS listeners; the effect that registered them runs
\* again, and requests the icons again, when icons.length changes
UiGetSelectedIcons ==
    /\ command = "design-system-icons"
    /\ toUi # <<>>
    /\ Head(toUi).type = "GET_SELECTED_ICONS"
    /\ toUi' = Tail(toUi)
    /\ uiIcons' = Head(toUi).icons
    /\ IF Len(Head(toUi).icons) # Len(uiIcons)
       THEN /\ Len(toMain) < MaxQueue
            /\ toMain' = Append(toMain, Event("GET_SELECTED_ICONS", <<>>, 0))
       ELSE UNCHANGED toMain
    /\ UNCHANGED <<pureVars, svgVars, selection, selectionChanges, command, configValid, lastSelectionId,
                   lastProcessedIcons, debouncePending, getSelectedArmed, addIconsArmed,
                   isAddingToDesignSystem, dispatched>>

\* UI: the SHOW_SUCCESS and SHOW_ERROR listeners open the confirmation
UiShowConfirmation ==
    /\ command = "design-system-icons"
    /\ toUi # <<>>
    /\ Head(toUi).type \in {"SHOW_SUCCESS", "SHOW_ERROR"}
    /\ toUi' = Tail(toUi)
    /\ UNCHANGED <<pureVars, svgVars, selection, selectionChanges, command, configValid, lastSelectionId,
                   lastProcessedIcons, debouncePending, getSelectedArmed, addIconsArmed,
                   toMain, uiIcons, isAddingToDesignSystem, dispatched>>

IsFlattened(icon) == icon.isSinglePath = TRUE

\* UI: the Add button, enabled while some icon is flattened
handleAddIcons ==
    /\ command = "design-system-icons"
    /\ Len(toMain) < MaxQueue
    /\ LET flattenedIcons == SelectSeq(uiIcons, IsFlattened)
       IN /\ Len(flattenedIcons) > 0
          /\ toMain' = Append(toMain, Event("ADD_ICONS", flattenedIcons, 0))
    /\ isAddingToDesignSystem' = TRUE
    /\ UNCHANGED <<pureVars, svgVars, selection, selectionChanges, command, configValid, lastSelectionId,
                   lastProcessedIcons, debouncePending, getSelectedArmed, addIconsArmed,
                   toUi, uiIcons, dispatched>>

\* The add-to-design-system command: addIconsToDesignSystem and addIconsToGitHub
RunAddToDesignSystem ==
    /\ command = "none"
    /\ Len(selection) > 0
    /\ configValid
    /\ command' = "add-to-design-system"
    /\ \E outcome \in FetchOutcomes :
          dispatched' = SendChunks(CollectedIcons(selection, domAvailable), outcome).requests
    /\ UNCHANGED <<pureVars, svgVars, selection, selectionChanges, configValid, lastSelectionId, lastProcessedIcons,
                   debouncePending, getSelectedArmed, addIconsArmed, toMain, toUi,
                   uiIcons, isAddingToDesignSystem>>

\* The running command ends
ClosePlugin ==
    /\ command # "none"
    /\ command' = "none"
    /\ MainClosed
    /\ UiClosed
    /\ dispatched' = <<>>
    /\ UNCHANGED <<pureVars, svgVars, selection, selectionChanges, configValid>>

NextSubmit ==
    \/ SelectionChange
    \/ OpenIconsPlugin
    \/ PollSelection
    \/ DebounceFire
    \/ MainGetSelectedIcons
    \/ MainAddIcons
    \/ MainDropEvent
    \/ UiGetSelectedIcons
    \/ UiShowConfirmation
    \/ handleAddIcons
    \/ RunAddToDesignSystem
    \/ ClosePlugin

SpecSubmit == InitSubmit /\ [][NextSubmit]_vars

----------------------------------------------------------------------------
(* One session of the design-system-icons command: processSelection runs
   that suspend at every exportAsync, the FLATTEN_ICONS handler, and the
   UI's flags.  Handlers are never held back by a bound; only the user is. *)

\* A processSelection call suspended at `await node.exportAsync(...)` of
\* nodes[next]; nodes is the selection it read when it was called
Run(nodes, next) == [nodes |-> nodes, next |-> next]

Response(icons) == Event("GET_SELECTED_ICONS", icons, 0)

\* processSelection() up to its first await: with no icon node it runs to its
\* end at once, otherwise it suspends at the first export
FreeSlot(rs) ==
    CHOOSE k \in 1..RunSlots : rs[k] = NoRun /\ \A j \in 1..(k - 1) : rs[j] # NoRun

RunsAfterCall(rs, nodes) ==
    IF nodes = <<>> THEN rs ELSE [rs EXCEPT ![FreeSlot(rs)] = Run(nodes, 1)]

EmittedByCall(nodes) == IF nodes = <<>> THEN <<Response(<<>>)>> ELSE <<>>

ProcessedAfterCall(processed, nodes) == IF nodes = <<>> THEN <<>> ELSE processed

Suspended == {k \in 1..RunSlots : runs[k] # NoRun}

Pending ==
    Len(toMain) + Len(toUi) + Cardinality(Suspended)
    + (IF debouncePending THEN 1 ELSE 0)

Open == command = "design-system-icons"

\* The node figma.flatten leaves in place of the icon with this id
FlattenedId(id) ==
    CASE id = "1:1" -> "2:1"
      [] id = "1:2" -> "2:2"
      [] id = "1:3" -> "2:3"
      [] OTHER -> id

FlattenedNode(id) ==
    IconNode(FlattenedId(id), <<"a">>, "VECTOR", FALSE, SvgOf(<<FilledPath>>), 20000)

\* Every node a session can meet
DocumentNodes == IconNodes \cup { FlattenedNode(node.id) : node \in IconNodes }

\* processSelection's icon of every node, with and without DOMParser
SelectedIcon ==
    [dom \in BOOLEAN |->
        [node \in DocumentNodes |->
            IconData(node.id, node.name, node.size, SelectionFlag(node, dom))]]

\* The icons a run emits for the selection it read when it was called
RunIcons(nodes, dom) == [i \in 1..Len(nodes) |-> SelectedIcon[dom][nodes[i]]]

\* What the loop body of the FLATTEN_ICONS handler does for one id
IconOutcomes == {"missing", "nothing", "throws", "flattened"}

FlattenOutcomes(iconIds) == [1..Len(iconIds) -> IconOutcomes]

\* Variant: an icon that throws ends the handler
ReachesProcessSelectionUnlessThrown(outcome) ==
    \A i \in DOMAIN outcome : outcome[i] \in {"missing", "nothing", "flattened"}

\* FLATTEN_ICONS handler: `continue` for an id that does not resolve and for
\* an icon with nothing to flatten, the inner catch for an icon that throws;
\* every iteration falls through to the call of processSelection
ReachesProcessSelection(outcome) ==
    \A i \in DOMAIN outcome : outcome[i] \in IconOutcomes

\* figma.currentPage.selection after the loop: the last flattened node
SelectionAfterFlatten(sel, iconIds, outcome) ==
    LET done == {i \in DOMAIN outcome : outcome[i] = "flattened"}
    IN IF done = {} THEN sel
       ELSE <<FlattenedNode(iconIds[CHOOSE i \in done : \A j \in done : j <= i])>>

\* The selections of a session: of the flattened frame and the frame that
\* needs flattening, in document order
SessionSelections ==
    { sel \in Selections :
        /\ \A i \in DOMAIN sel : sel[i].id \in {"1:1", "1:2"}
        /\ Len(sel) > 0 => sel[Len(sel)].id = "1:2" }

InitSession ==
    /\ SvgIdle
    /\ SubmitIdle
    /\ PureIdle
    /\ selection \in SessionSelections
    /\ configValid = TRUE

\* The user changes the selection while little is in flight
SessionSelectionChange ==
    /\ Pending < MaxPending
    /\ selection' \in SessionSelections
    /\ SelectionChange

\* The debounce timer fires: an empty response if there were icons, then
\* processSelection(), not awaited
DebounceTimer ==
    /\ Open
    /\ debouncePending
    /\ debouncePending' = FALSE
    /\ runs' = RunsAfterCall(runs, selection)
    /\ lastProcessedIcons' = ProcessedAfterCall(lastProcessedIcons, selection)
    /\ toUi' = toUi
                \o (IF Len(lastProcessedIcons) > 0 THEN <<Response(<<>>)>> ELSE <<>>)
                \o EmittedByCall(selection)
    /\ UNCHANGED <<svgVars, base64Vars, outlineVars, flattenVars, chunkVars, hostVars,
                   selection, selectionChanges, command, configValid, lastSelectionId,
                   getSelectedArmed, addIconsArmed, toMain, uiIcons,
                   isAddingToDesignSystem, dispatched, isFlattening, showConfirmation>>

\* main: the once(GET_SELECTED_ICONS) handler awaits processSelection()
OnceGetSelectedIcons ==
    /\ Open
    /\ toMain # <<>>
    /\ Head(toMain).type = "GET_SELECTED_ICONS"
    /\ getSelectedArmed
    /\ getSelectedArmed' = FALSE
    /\ toMain' = Tail(toMain)
    /\ runs' = RunsAfterCall(runs, selection)
    /\ lastProcessedIcons' = ProcessedAfterCall(lastProcessedIcons, selection)
    /\ toUi' = toUi \o EmittedByCall(selection)
    /\ UNCHANGED <<svgVars, base64Vars, outlineVars, flattenVars, chunkVars, hostVars,
                   selection, selectionChanges, command, configValid, lastSelectionId,
                   debouncePending, addIconsArmed, uiIcons,
                   isAddingToDesignSystem, dispatched, isFlattening, showConfirmation>>

\* main: the exportAsync a run waits for resolves; after the last node the
\* run stores its icons and emits them
ExportResolved(i) ==
    /\ Open
    /\ i \in Suspended
    /\ IF runs[i].next < Len(runs[i].nodes)
       THEN /\ runs' = [runs EXCEPT ![i].next = @ + 1]
            /\ UNCHANGED <<lastProcessedIcons, toUi>>
       ELSE LET icons == RunIcons(runs[i].nodes, domAvailable)
            IN /\ runs' = [runs EXCEPT ![i] = NoRun]
               /\ lastProcessedIcons' = icons
               /\ toUi' = Append(toUi, Response(icons))
    /\ UNCHANGED <<svgVars, base64Vars, outlineVars, flattenVars, chunkVars, hostVars,
                   selection, selectionChanges, command, configValid, lastSelectionId,
                   debouncePending, getSelectedArmed, addIconsArmed, toMain, uiIcons,
                   isAddingToDesignSystem, dispatched, isFlattening, showConfirmation>>

\* main: the once(ADD_ICONS) handler
OnceAddIcons ==
    /\ Open
    /\ toMain # <<>>
    /\ Head(toMain).type = "ADD_ICONS"
    /\ addIconsArmed
    /\ addIconsArmed' = FALSE
    /\ toMain' = Tail(toMain)
    /\ IF ~configValid
       THEN /\ toUi' = Append(toUi, Event("SHOW_ERROR", <<>>, 0))
            /\ UNCHANGED dispatched
       ELSE \E outcome \in FetchOutcomes :
               LET t == SendChunks(Head(toMain).icons, outcome)
               IN /\ dispatched' = t.requests
                  /\ toUi' = Append(toUi, FinalEvent(t))
    /\ UNCHANGED <<svgVars, base64Vars, outlineVars, flattenVars, chunkVars, hostVars,
                   selection, selectionChanges, command, configValid, lastSelectionId,
                   lastProcessedIcons, debouncePending, getSelectedArmed, uiIcons,
                   isAddingToDesignSystem, runs, isFlattening, showConfirmation>>

\* main: the on(FLATTEN_ICONS) handler; it ends with processSelection(), not
\* awaited
OnFlattenIcons ==
    /\ Open
    /\ toMain # <<>>
    /\ Head(toMain).type = "FLATTEN_ICONS"
    /\ toMain' = Tail(toMain)
    /\ \E outcome \in FlattenOutcomes(Head(toMain).icons) :
          LET sel == SelectionAfterFlatten(selection, Head(toMain).icons, outcome)
          IN /\ selection' = sel
             /\ IF ReachesProcessSelection(outcome)
                THEN /\ runs' = RunsAfterCall(runs, sel)
                     /\ lastProcessedIcons' = ProcessedAfterCall(lastProcessedIcons, sel)
                     /\ toUi' = toUi \o EmittedByCall(sel)
                ELSE UNCHANGED <<runs, lastProcessedIcons, toUi>>
    /\ UNCHANGED <<svgVars, base64Vars, outlineVars, flattenVars, chunkVars, hostVars,
                   selectionChanges, command, configValid, lastSelectionId,
                   debouncePending, getSelectedArmed, addIconsArmed, uiIcons,
                   isAddingToDesignSystem, dispatched, isFlattening, showConfirmation>>

\* main: an event whose once handler has already run has no listener
NoListener ==
    /\ Open
    /\ toMain # <<>>
    /\ \/ Head(toMain).type = "GET_SELECTED_ICONS" /\ ~getSelectedArmed
       \/ Head(toMain).type = "ADD_ICONS" /\ ~addIconsArmed
    /\ toMain' = Tail(toMain)
    /\ UNCHANGED <<svgVars, base64Vars, outlineVars, flattenVars, chunkVars, hostVars,
                   selection, selectionChanges, command, configValid, lastSelectionId,
                   lastProcessedIcons, debouncePending, getSelectedArmed, addIconsArmed,
                   toUi, uiIcons, isAddingToDesignSystem, dispatched,
                   runs, isFlattening, showConfirmation>>

\* UI: both GET_SELECTED_ICONS listeners; the effect that registered them runs
\* again, and requests the icons again, when icons.length changes
UiSelectedIcons ==
    /\ Open
    /\ toUi # <<>>
    /\ Head(toUi).type = "GET_SELECTED_ICONS"
    /\ toUi' = Tail(toUi)
    /\ uiIcons' = Head(toUi).icons
    /\ isFlattening' = FALSE
    /\ toMain' = toMain \o (IF Len(Head(toUi).icons) # Len(uiIcons)
                             THEN <<Event("GET_SELECTED_ICONS", <<>>, 0)>> ELSE <<>>)
    /\ UNCHANGED <<svgVars, base64Vars, outlineVars, flattenVars, chunkVars, hostVars,
                   selection, selectionChanges, command, configValid, lastSelectionId,
                   lastProcessedIcons, debouncePending, getSelectedArmed, addIconsArmed,
                   isAddingToDesignSystem, dispatched, runs, showConfirmation>>

\* UI: the SHOW_SUCCESS and SHOW_ERROR listeners open the confirmation
UiConfirmation ==
    /\ Open
    /\ toUi # <<>>
    /\ Head(toUi).type \in {"SHOW_SUCCESS", "SHOW_ERROR"}
    /\ toUi' = Tail(toUi)
    /\ showConfirmation' = TRUE
    /\ UNCHANGED <<svgVars, base64Vars, outlineVars, flattenVars, chunkVars, hostVars,
                   selection, selectionChanges, command, configValid, lastSelectionId,
                   lastProcessedIcons, debouncePending, getSelectedArmed, addIconsArmed,
                   toMain, uiIcons, isAddingToDesignSystem, dispatched, runs,
                   isFlattening>>

\* UI: the confirmation's Close button
handleCloseConfirmation ==
    /\ Open
    /\ showConfirmation
    /\ showConfirmation' = FALSE
    /\ UNCHANGED <<svgVars, base64Vars, outlineVars, flattenVars, chunkVars, hostVars,
                   submitVars, runs, isFlattening>>

\* UI: the Add button, clicked while no confirmation covers it.  Whether a
\* Button with `loading` set passes a click on is the component library's:
\* a click it swallows is a step that changes nothing.
AddClicked ==
    /\ Pending < MaxPending
    /\ ~showConfirmation
    /\ handleAddIcons

IsUnflattened(icon) == icon.isSinglePath = FALSE

\* UI: the Flatten button, rendered for a single icon that is not flattened
handleFlattenIcons ==
    /\ Open
    /\ Pending < MaxPending
    /\ ~showConfirmation
    /\ Len(uiIcons) = 1
    /\ LET iconIds == Ids(SelectSeq(uiIcons, IsUnflattened))
       IN /\ Len(iconIds) > 0
          /\ toMain' = Append(toMain, Event("FLATTEN_ICONS", iconIds, 0))
    /\ isFlattening' = TRUE
    /\ UNCHANGED <<svgVars, base64Vars, outlineVars, flattenVars, chunkVars, hostVars,
                   selection, selectionChanges, command, configValid, lastSelectionId,
                   lastProcessedIcons, debouncePending, getSelectedArmed, addIconsArmed,
                   toUi, uiIcons, isAddingToDesignSystem, dispatched, runs,
                   showConfirmation>>

\* The user closes the plugin: main's timers and suspended runs go with it
CloseSession ==
    /\ Open
    /\ command' = "none"
    /\ MainClosed
    /\ UiClosed
    /\ dispatched' = <<>>
    /\ runs' = IdleRuns
    /\ isFlattening' = FALSE
    /\ showConfirmation' = FALSE
    /\ UNCHANGED <<svgVars, base64Vars, outlineVars, flattenVars, chunkVars, hostVars,
                   selection, selectionChanges, configValid>>

\* Selecting and flattening: the Add button is left alone
NextSession ==
    \/ SessionSelectionChange
    \/ OpenIconsPlugin
    \/ PollSelection
    \/ DebounceTimer
    \/ OnceGetSelectedIcons
    \/ \E i \in 1..RunSlots : ExportResolved(i)
    \/ OnFlattenIcons
    \/ NoListener
    \/ UiSelectedIcons
    \/ handleFlattenIcons
    \/ CloseSession

\* The host delivers every event, fires every timer and settles every
\* export; the user is free never to act
SelectionFairness ==
    /\ WF_vars(PollSelection)
    /\ WF_vars(DebounceTimer)
    /\ WF_vars(OnceGetSelectedIcons)
    /\ WF_vars(NoListener)
    /\ WF_vars(UiSelectedIcons)
    /\ \A i \in 1..RunSlots : WF_vars(ExportResolved(i))

SpecSession ==
    InitSession /\ [][NextSession]_vars /\ SelectionFairness /\ WF_vars(OnFlattenIcons)

\* Flattening only: the user leaves the selection alone
NextFlattening ==
    \/ OpenIconsPlugin
    \/ PollSelection
    \/ DebounceTimer
    \/ OnceGetSelectedIcons
    \/ \E i \in 1..RunSlots : ExportResolved(i)
    \/ OnFlattenIcons
    \/ NoListener
    \/ UiSelectedIcons
    \/ handleFlattenIcons
    \/ CloseSession

SpecFlattening ==
    InitSession /\ [][NextFlattening]_vars /\ SelectionFairness
    /\ WF_vars(OnFlattenIcons)

InitAdding ==
    /\ SvgIdle
    /\ SubmitIdle
    /\ PureIdle
    /\ selection \in Selections
    /\ configValid \in BOOLEAN

\* Adding icons: the user leaves the selection and the Flatten button alone
NextAdding ==
    \/ OpenIconsPlugin
    \/ PollSelection
    \/ DebounceTimer
    \/ OnceGetSelectedIcons
    \/ \E i \in 1..RunSlots : ExportResolved(i)
    \/ OnceAddIcons
    \/ NoListener
    \/ UiSelectedIcons
    \/ UiConfirmation
    \/ handleCloseConfirmation
    \/ AddClicked
    \/ CloseSession

SpecAdding ==
    /\ InitAdding
    /\ [][NextAdding]_vars
    /\ SelectionFairness
    /\ WF_vars(OnceAddIcons)
    /\ WF_vars(UiConfirmation)

----------------------------------------------------------------------------
(* processIconsInChunks: the base64 encoding of a chunk's JSON *)

MaxJsonBody == 4

\* UTF-16 code units: '"', 'e' with acute accent, the euro sign
BodyCodes == {34, 233, 8364}

\* JSON.stringify of a non-empty array: '[' ... ']', as char codes
JsonStrings ==
    { <<91>> \o body \o <<93>> :
        body \in UNION { [1..n -> BodyCodes] : n \in 0..MaxJsonBody } }

\* const chars = 'ABC...+/'
chars ==
    <<"A","B","C","D","E","F","G","H","I","J","K","L","M","N","O","P",
      "Q","R","S","T","U","V","W","X","Y","Z","a","b","c","d","e","f",
      "g","h","i","j","k","l","m","n","o","p","q","r","s","t","u","v",
      "w","x","y","z","0","1","2","3","4","5","6","7","8","9","+","/">>

\* chars.charAt(n)
charAt(n) == chars[n + 1]

RECURSIVE BitOr(_, _)
\* a | b on non-negative operands
BitOr(a, b) ==
    IF a = 0 THEN b
    ELSE IF b = 0 THEN a
    ELSE (IF a % 2 = 1 \/ b % 2 = 1 THEN 1 ELSE 0) + 2 * BitOr(a \div 2, b \div 2)

\* a << n: bits 0..30 of the 32-bit result (no sextet reads the sign bit)
ShiftLeft(a, n) == (a % 2^(31 - n)) * 2^n

\* (bitmap >> n) & 63
Sextet(bitmap, n) == (bitmap \div 2^n) % 64

\* RFC 4648 base64 of a byte sequence, with padding
RECURSIVE StandardBase64(_)
StandardBase64(bytes) ==
    IF bytes = <<>> THEN <<>>
    ELSE LET n == Len(bytes)
             a == bytes[1]
             b == IF n >= 2 THEN bytes[2] ELSE 0
             c == IF n >= 3 THEN bytes[3] ELSE 0
             bitmap == a * 65536 + b * 256 + c
         IN <<charAt(Sextet(bitmap, 18)), charAt(Sextet(bitmap, 12)),
              IF n >= 2 THEN charAt(Sextet(bitmap, 6)) ELSE "=",
              IF n >= 3 THEN charAt(Sextet(bitmap, 0)) ELSE "=">>
            \o (IF n > 3 THEN StandardBase64(SubSeq(bytes, 4, n)) ELSE <<>>)

\* btoa throws InvalidCharacterError for a code unit above 255
BtoaThrows(str) == \E i \in 1..Len(str) : str[i] > 255

\* btoa(str): base64 of the code units taken as bytes
btoa(str) == StandardBase64(str)

\* The manual encoder's loop from index j (0-based) on
RECURSIVE ManualFrom(_, _)
ManualFrom(str, j) ==
    IF ~(j < Len(str)) THEN <<>>
    ELSE LET a == str[j + 1]
             j1 == j + 1
             b == IF j1 < Len(str) THEN str[j1 + 1] ELSE 0
             j2 == IF j1 < Len(str) THEN j1 + 1 ELSE j1
             c == IF j2 < Len(str) THEN str[j2 + 1] ELSE 0
             j3 == IF j2 < Len(str) THEN j2 + 1 ELSE j2
             bitmap == BitOr(BitOr(ShiftLeft(a, 16), ShiftLeft(b, 8)), c)
         IN <<charAt(Sextet(bitmap, 18)), charAt(Sextet(bitmap, 12)),
              IF j3 - 2 < Len(str) THEN charAt(Sextet(bitmap, 6)) ELSE "=",
              IF j3 - 1 < Len(str) THEN charAt(Sextet(bitmap, 0)) ELSE "=">>
            \o ManualFrom(str, j3)

\* Manual base64 encoding fallback
ManualBase64(str) == ManualFrom(str, 0)

\* base64Payload of a chunk: btoa when it is defined and does not throw,
\* the manual encoder otherwise
EncodePayload(str, hasBtoa) ==
    IF hasBtoa /\ ~BtoaThrows(str) THEN btoa(str) ELSE ManualBase64(str)

\* The workflow's `base64 -d`: the bytes a base64 text stands for
RECURSIVE Base64Decode(_)
Base64Decode(text) ==
    IF Len(text) < 4 THEN <<>>
    ELSE LET Index(ch) == (CHOOSE i \in 1..64 : chars[i] = ch) - 1
             v1 == Index(text[1])
             v2 == Index(text[2])
             v3 == IF text[3] = "=" THEN 0 ELSE Index(text[3])
             v4 == IF text[4] = "=" THEN 0 ELSE Index(text[4])
             bitmap == v1 * 262144 + v2 * 4096 + v3 * 64 + v4
             bytes == <<(bitmap \div 65536) % 256, (bitmap \div 256) % 256, bitmap % 256>>
         IN (IF text[3] = "=" THEN SubSeq(bytes, 1, 1)
             ELSE IF text[4] = "=" THEN SubSeq(bytes, 1, 2)
             ELSE bytes)
            \o Base64Decode(SubSeq(text, 5, Len(text)))

\* One chunk reaches the encoding step
EncodeChunk ==
    /\ jsonString = NoString
    /\ \E str \in JsonStrings, hasBtoa \in BOOLEAN :
         /\ jsonString' = str
         /\ btoaAvailable' = hasBtoa
         /\ base64Payload' = EncodePayload(str, hasBtoa)
    /\ UNCHANGED exceptBase64

\* The request for the chunk has been sent
ChunkSent ==
    /\ jsonString # NoString
    /\ jsonString' = NoString
    /\ btoaAvailable' = FALSE
    /\ base64Payload' = NoString
    /\ UNCHANGED exceptBase64

NextBase64 == EncodeChunk \/ ChunkSent

SpecBase64 == Init /\ [][NextBase64]_vars

----------------------------------------------------------------------------
(* strokeToOutline *)

\* parseFloat of a string of decimal digits
RECURSIVE parseFloat(_)
parseFloat(str) ==
    IF str = <<>> THEN 0
    ELSE LET Digit(ch) == (CHOOSE i \in 1..10 :
                              <<"0","1","2","3","4","5","6","7","8","9">>[i] = ch) - 1
         IN 10 * parseFloat(SubSeq(str, 1, Len(str) - 1)) + Digit(str[Len(str)])

\* element.getAttribute(name) || fallback
AttrOr(element, name, fallback) ==
    IF getAttribute(element, name) \in {Absent, <<>>}
    THEN fallback
    ELSE getAttribute(element, name)

\* One path command; coordinates and radii are held doubled, so that the
\* halves of odd stroke widths stay integers
Cmd(c, args) == [c |-> c, args |-> args]

\* The arc command `A r r 0 1 sweep x y`, radii and end point doubled
Arc(r, sweep, x, y) == Cmd("A", <<r, r, 0, 1, sweep, x, y>>)

\* What strokeToOutline returns: null, path data assembled from commands, or
\* the text of an attribute
Null == [kind |-> "null"]

PathCommands(commands) == [kind |-> "commands", commands |-> commands]

AttributeText(value) ==
    IF value = Absent THEN Null ELSE [kind |-> "text", text |-> value]

\* A full circle of the doubled radius r around the doubled centre
CircleSubPath(cx, cy, r, sweep) ==
    << Cmd("M", <<cx, cy - r>>), Arc(r, sweep, cx, cy + r), Arc(r, sweep, cx, cy - r),
       Cmd("Z", <<>>) >>

Max(a, b) == IF a >= b THEN a ELSE b

\* The stroke rectangle of a line. Its corners come from Math.atan2, cos and
\* sin; they are carried by name, not computed.
LineOutline ==
    PathCommands(<< Cmd("M", <<"x1a", "y1a">>), Cmd("L", <<"x2a", "y2a">>),
                    Cmd("L", <<"x2b", "y2b">>), Cmd("L", <<"x1b", "y1b">>),
                    Cmd("Z", <<>>) >>)

\* Variant: the inner circle drawn with the sweep flag of the outer one
CircleOutlineSameSweep(element, strokeWidth) ==
    LET cx == 2 * parseFloat(AttrOr(element, "cx", <<"0">>))
        cy == 2 * parseFloat(AttrOr(element, "cy", <<"0">>))
        r == 2 * parseFloat(AttrOr(element, "r", <<"0">>))
        width == 2 * parseFloat(strokeWidth)
        outerR == r + width \div 2
        innerR == Max(0, r - width \div 2)
    IN IF innerR <= 0
       THEN PathCommands(CircleSubPath(cx, cy, outerR, 1))
       ELSE PathCommands(CircleSubPath(cx, cy, outerR, 1)
                         \o CircleSubPath(cx, cy, innerR, 1))

CircleOutline(element, strokeWidth) ==
    LET cx == 2 * parseFloat(AttrOr(element, "cx", <<"0">>))
        cy == 2 * parseFloat(AttrOr(element, "cy", <<"0">>))
        r == 2 * parseFloat(AttrOr(element, "r", <<"0">>))
        width == 2 * parseFloat(strokeWidth)
        outerR == r + width \div 2
        innerR == Max(0, r - width \div 2)
    IN IF innerR <= 0
       THEN PathCommands(CircleSubPath(cx, cy, outerR, 1))
       ELSE PathCommands(CircleSubPath(cx, cy, outerR, 1)
                         \o CircleSubPath(cx, cy, innerR, 0))

RectOutline(element) ==
    LET x == 2 * parseFloat(AttrOr(element, "x", <<"0">>))
        y == 2 * parseFloat(AttrOr(element, "y", <<"0">>))
        width == 2 * parseFloat(AttrOr(element, "width", <<"0">>))
        height == 2 * parseFloat(AttrOr(element, "height", <<"0">>))
        strokeWidth == 2 * parseFloat(AttrOr(element, "stroke-width", <<"1">>))
        halfStroke == strokeWidth \div 2
        outerX == x - halfStroke
        outerY == y - halfStroke
        outerWidth == width + strokeWidth
        outerHeight == height + strokeWidth
        innerX == x + halfStroke
        innerY == y + halfStroke
        innerWidth == Max(0, width - strokeWidth)
        innerHeight == Max(0, height - strokeWidth)
        outer == << Cmd("M", <<outerX, outerY>>),
                    Cmd("L", <<outerX + outerWidth, outerY>>),
                    Cmd("L", <<outerX + outerWidth, outerY + outerHeight>>),
                    Cmd("L", <<outerX, outerY + outerHeight>>),
                    Cmd("Z", <<>>) >>
        inner == << Cmd("M", <<innerX, innerY>>),
                    Cmd("L", <<innerX, innerY + innerHeight>>),
                    Cmd("L", <<innerX + innerWidth, innerY + innerHeight>>),
                    Cmd("L", <<innerX + innerWidth, innerY>>),
                    Cmd("Z", <<>>) >>
    IN IF innerWidth <= 0 \/ innerHeight <= 0
       THEN PathCommands(outer)
       ELSE PathCommands(outer \o inner)

\* Variant: null for every tag other than line, circle and rect
strokeToOutlineNullForOthers(element) ==
    LET stroke == getAttribute(element, "stroke")
    IN IF stroke \in {Absent, <<>>, Str_none, Str_transparent} THEN Null
       ELSE IF element.tag = "line" THEN LineOutline
       ELSE IF element.tag = "circle"
            THEN CircleOutline(element, AttrOr(element, "stroke-width", <<"1">>))
       ELSE IF element.tag = "rect" THEN RectOutline(element)
       ELSE Null

\* The value returned: path data, the element's own d, or null
strokeToOutline(element) ==
    LET stroke == getAttribute(element, "stroke")
        strokeWidth == AttrOr(element, "stroke-width", <<"1">>)
    IN IF stroke \in {Absent, <<>>, Str_none, Str_transparent} THEN Null
       ELSE IF element.tag = "line" THEN LineOutline
       ELSE IF element.tag = "circle" THEN CircleOutline(element, strokeWidth)
       ELSE IF element.tag = "rect" THEN RectOutline(element)
       ELSE AttributeText(getAttribute(element, "d"))

Str_pathData == <<"M","5"," ","1","2","h","1","4">>

\* The shape attributes of an element of the tag, of the given size
Geometry(tag, size) ==
    CASE tag = "line" ->
           <<Attr("x1", <<"4">>), Attr("y1", <<"1","2">>), Attr("x2", size), Attr("y2", <<"1","2">>)>>
      [] tag = "circle" ->
           <<Attr("cx", <<"1","2">>), Attr("cy", <<"1","2">>), Attr("r", size)>>
      [] tag = "rect" ->
           <<Attr("x", <<"4">>), Attr("y", <<"4">>), Attr("width", size), Attr("height", size)>>
      [] tag = "ellipse" ->
           <<Attr("cx", <<"1","2">>), Attr("cy", <<"1","2">>), Attr("rx", size), Attr("ry", size)>>
      [] OTHER -> <<>>

OutlineElements ==
    { El(tag,
         OptAttr("stroke", stroke) \o OptAttr("stroke-width", strokeWidth)
           \o OptAttr("d", d) \o Geometry(tag, size),
         "selfclosing", <<>>) :
        tag \in {"path", "line", "circle", "rect", "ellipse", "polygon", "polyline"},
        stroke \in {Absent, <<>>, Str_none, Str_transparent, Str_000000},
        strokeWidth \in {Absent, <<"1">>, <<"4">>},
        d \in {Absent, Str_pathData},
        size \in {<<"1">>, <<"2">>, <<"8">>} }

\* One call strokeToOutline(element)
CallStrokeToOutline ==
    /\ outlineElement = NoElement
    /\ \E element \in OutlineElements :
         /\ outlineElement' = element
         /\ outlinePath' = strokeToOutline(element)
    /\ UNCHANGED exceptOutline

\* The caller is done with the returned path data
DiscardOutline ==
    /\ outlineElement # NoElement
    /\ outlineElement' = NoElement
    /\ outlinePath' = NotCalled
    /\ UNCHANGED exceptOutline

NextOutline == CallStrokeToOutline \/ DiscardOutline

SpecOutline == Init /\ [][NextOutline]_vars

----------------------------------------------------------------------------
(* flattenSvgPaths *)

MaxFlattenElems == 3

Str_evenodd == <<"e","v","e","n","o","d","d">>

Str_pathDataB == <<"M","0"," ","0","h","2","4">>

\* The supported elements that are not helpers
RelevantElements(svgElement) ==
    SelectSeq(svgElement.children,
              LAMBDA e : /\ ~isHelperElement(e)
                         /\ e.tag \in {"path", "line", "circle", "rect", "ellipse",
                                       "polygon", "polyline"})

\* The path data one element adds to pathDataArray: <<>> when it adds none
ElementPathData(element) ==
    LET pathData == getAttribute(element, "d")
        own == IF pathData \in {Absent, <<>>} THEN <<>> ELSE <<AttributeText(pathData)>>
    IN IF element.tag = "path" THEN own
       ELSE LET strokeOutline == strokeToOutline(element)
            IN IF strokeOutline # Null /\ strokeOutline # AttributeText(<<>>)
               THEN <<strokeOutline>>
               ELSE own

RECURSIVE PathDataArray(_)
PathDataArray(elements) ==
    IF elements = <<>> THEN <<>>
    ELSE ElementPathData(Head(elements)) \o PathDataArray(Tail(elements))

\* pathDataArray.join(' '): the pieces in order
Joined(pathDataArray) == [kind |-> "joined", parts |-> pathDataArray]

\* Variant: the flattened path without a fill-rule
FlattenedPathNoFillRule(combinedPathData) ==
    El("path",
       <<Attr("d", combinedPathData), Attr("fill", Str_currentColor)>>,
       "selfclosing", <<>>)

\* The flattened path element
FlattenedPath(combinedPathData) ==
    El("path",
       <<Attr("d", combinedPathData), Attr("fill", Str_currentColor),
         Attr("fill-rule", Str_evenodd)>>,
       "selfclosing", <<>>)

Original(svgContent_) == [kind |-> "original", markup |-> svgContent_]

\* What one call returns: the argument, or the serialized new svg
flattenSvgPaths(m, dom) ==
    IF ~dom THEN Original(m)
    ELSE IF ~querySelectorSvg(m).found THEN Original(m)
    ELSE LET relevantElements == RelevantElements(querySelectorSvg(m))
             pathDataArray == PathDataArray(relevantElements)
         IN IF Len(relevantElements) = 0 THEN Original(m)
            ELSE IF Len(pathDataArray) = 0 THEN Original(m)
            ELSE IF Len(pathDataArray) = 1 THEN Original(m)
            ELSE [kind |-> "flattened",
                  attributes |-> OptAttr("viewBox", m.viewBox),
                  children |-> <<FlattenedPath(Joined(pathDataArray))>>]

Shape(tag, stroke, d) ==
    El(tag, OptAttr("stroke", stroke) \o OptAttr("stroke-width", IF stroke = Absent THEN Absent ELSE <<"4">>)
              \o OptAttr("d", d) \o Geometry(tag, <<"8">>),
       "selfclosing", <<>>)

FlattenElements ==
    { Shape("path", Absent, Str_pathData),
      Shape("path", Str_000000, Str_pathDataB),
      Shape("path", Absent, Absent),
      Shape("circle", Str_000000, Absent),
      Shape("circle", Absent, Absent),
      Shape("line", Str_000000, Absent),
      Shape("polygon", Str_000000, Absent),
      El("rect", <<Attr("fill", Str_white)>> \o Size(Str_24, Str_24), "selfclosing", <<>>) }

FlattenInputs ==
    { [wrap |-> w, viewBox |-> Str_viewBox16, elems |-> elems, cut |-> 0] :
        w \in {"svg", "bare"},
        elems \in UNION { [1..n -> FlattenElements] : n \in 0..MaxFlattenElems } }

\* One call flattenSvgPaths(svgContent)
CallFlattenSvgPaths ==
    /\ flattenResult = NotCalled
    /\ \E m \in FlattenInputs, dom \in BOOLEAN :
         /\ flattenContent' = m
         /\ flattenDom' = dom
         /\ flattenResult' = flattenSvgPaths(m, dom)
    /\ UNCHANGED exceptFlatten

\* The caller is done with the returned markup
DiscardFlattened ==
    /\ flattenResult # NotCalled
    /\ flattenContent' = NoMarkup
    /\ flattenDom' = FALSE
    /\ flattenResult' = NotCalled
    /\ UNCHANGED exceptFlatten

NextFlatten == CallFlattenSvgPaths \/ DiscardFlattened

SpecFlatten == Init /\ [][NextFlatten]_vars

----------------------------------------------------------------------------
(* processIconsInChunks, one call at a time *)

MaxIcons == 3

\* Lengths of JSON.stringify({name, svg, aliases}) the icons can have
IconSizes == {20000, 35000, 58000, 61000}

IconIds == <<"2:1", "2:2", "2:3", "2:4", "2:5">>

\* The icon lists processIconsInChunks can be called with
ChunkInputs ==
    { [i \in 1..Len(sizes) |-> IconData(IconIds[i], <<"a">>, sizes[i], TRUE)] :
        sizes \in UNION { [1..k -> IconSizes] : k \in 0..MaxIcons } }

\* One call processIconsInChunks(icons); outcome[i] is what fetch does for
\* chunk i
CallProcessIconsInChunks ==
    /\ chunkTally = NotCalled
    /\ \E icons \in ChunkInputs, outcome \in [1..MaxIcons -> Outcomes] :
         /\ chunkIcons' = icons
         /\ chunksBuilt' = BuildChunks(icons)
         /\ chunkTally' = SendChunks(icons, outcome)
         /\ chunkEvent' = FinalEvent(SendChunks(icons, outcome))
    /\ UNCHANGED exceptChunks

\* The call has returned
ReturnProcessIconsInChunks ==
    /\ chunkTally # NotCalled
    /\ chunkIcons' = <<>>
    /\ chunksBuilt' = <<>>
    /\ chunkTally' = NotCalled
    /\ chunkEvent' = NotCalled
    /\ UNCHANGED exceptChunks

NextChunks == CallProcessIconsInChunks \/ ReturnProcessIconsInChunks

SpecChunks == Init /\ [][NextChunks]_vars

----------------------------------------------------------------------------
(* processSelection: the host's judgement of one node *)

MaxChildren == 2

\* A child of a selected node: its type, the length of its strokes array and
\* of its children array (0 when it has none)
HostChild(type, strokes, kids) == [type |-> type, strokes |-> strokes, kids |-> kids]

HostNode(type, strokes, children, svg) ==
    [type |-> type, strokes |-> strokes, children |-> children, svg |-> svg]

FrameTypes == {"FRAME", "COMPONENT", "INSTANCE"}

\* hasVectorContent of a child; a nested frame is taken to hold a vector
ChildHasVectorContent(child) ==
    \/ child.type \in {"VECTOR", "BOOLEAN_OPERATION"}
    \/ child.type \in FrameTypes /\ child.kids > 0

hasVectorContent(node) ==
    \/ node.type \in {"VECTOR", "BOOLEAN_OPERATION"}
    \/ /\ node.type \in FrameTypes
       /\ \E i \in 1..Len(node.children) : ChildHasVectorContent(node.children[i])

\* getIconNodes keeps the node (its size is taken to be in range)
IsIconNode(node) ==
    \/ node.type \in FrameTypes /\ hasVectorContent(node)
    \/ node.type \in {"VECTOR", "BOOLEAN_OPERATION"}

\* needsFlattening as processSelection computes it from the host's node
HostNeedsFlattening(node) ==
    IF node.type \in FrameTypes
    THEN LET vectorChildren ==
                 SelectSeq(node.children,
                           LAMBDA c : c.type \in {"VECTOR", "BOOLEAN_OPERATION", "LINE"})
             hasNestedGroups == \E i \in 1..Len(node.children) : node.children[i].kids > 0
         IN \/ Len(vectorChildren) > 1
            \/ /\ Len(vectorChildren) = 1
               /\ vectorChildren[1].type \in {"VECTOR", "LINE"}
               /\ vectorChildren[1].strokes > 0
            \/ hasNestedGroups
    ELSE IF node.type \in {"VECTOR", "BOOLEAN_OPERATION"}
    THEN node.strokes > 0 \/ Len(node.children) > 0
    ELSE IF node.type = "LINE" THEN node.strokes > 0
    ELSE FALSE

\* processedIcon after the override
ProcessedIcon(node, dom) ==
    LET returned == processSvgToReact(node.svg, <<"a">>, dom)
    IN [returned EXCEPT !.isSinglePath =
            SelectionFlag(IconNode("3:1", <<"a">>, node.type, HostNeedsFlattening(node),
                                   node.svg, 0), dom)]

\* The element of `icons` pushed for the node
PushedIcon(node, dom) ==
    [id |-> "3:1", processedIcon |-> ProcessedIcon(node, dom),
     isSinglePath |-> ProcessedIcon(node, dom).isSinglePath]

HostChildren ==
    { HostChild("VECTOR", 0, 0), HostChild("VECTOR", 1, 0),
      HostChild("BOOLEAN_OPERATION", 1, 2), HostChild("LINE", 1, 0),
      HostChild("GROUP", 0, 1), HostChild("RECTANGLE", 0, 0) }

HostSvgs == { SvgOf(<<FilledPath>>), SvgOf(<<StrokedPath, StrokedCircle>>) }

HostNodes ==
    { n \in [type : FrameTypes \cup {"VECTOR", "BOOLEAN_OPERATION"},
             strokes : {0, 1},
             children : UNION { [1..k -> HostChildren] : k \in 0..MaxChildren },
             svg : HostSvgs] :
        /\ IsIconNode(n)
        /\ n.type = "VECTOR" => Len(n.children) = 0
        /\ n.type = "BOOLEAN_OPERATION" =>
              Len(n.children) = MaxChildren /\ \A i \in 1..Len(n.children) : n.children[i].type = "VECTOR" }

\* One iteration of processSelection's loop, in the main thread (no DOMParser)
ProcessHostNode ==
    /\ hostNode = NoElement
    /\ \E node \in HostNodes :
         /\ hostNode' = node
         /\ reportedIcon' = PushedIcon(node, FALSE)
    /\ UNCHANGED exceptHost

\* The loop moves on
NextHostNode ==
    /\ hostNode # NoElement
    /\ hostNode' = NoElement
    /\ reportedIcon' = NotCalled
    /\ UNCHANGED exceptHost

NextHost == ProcessHostNode \/ NextHostNode

SpecHost == Init /\ [][NextHost]_vars

----------------------------------------------------------------------------
(* The principal nodes of a call, as the claims describe them *)

Called == result # NoResult

Strategy == StrategyUsed(svgContent, domAvailable)

\* The value of the attribute `name` in a matched element text, or Absent
TextAttribute(element, name) ==
    LET hits == SelectSeq(element, LAMBDA t : t.k = "attr" /\ t.a = name)
    IN IF hits = <<>> THEN Absent ELSE hits[1].b

Node(tag, nested, fill, stroke) ==
    [tag |-> tag, nested |-> nested, fill |-> fill, stroke |-> stroke]

\* The principal nodes the strategy in use has selected, in its order
PrincipalNodes(m, dom) ==
    IF StrategyUsed(m, dom) = "dom"
    THEN LET main == DomMainElements(querySelectorSvg(m))
         IN [i \in 1..Len(main) |->
               Node(main[i].tag, Len(main[i].kids) > 0,
                    getAttribute(main[i], "fill"), getAttribute(main[i], "stroke"))]
    ELSE LET all == RegexAllElements(MarkupText(m))
         IN [i \in 1..Len(all) |->
               Node(TextTag(all[i]), FALSE,
                    TextAttribute(all[i], "fill"), TextAttribute(all[i], "stroke"))]

UsableFill(n) == n.fill \notin {Absent, Str_none, Str_transparent}

RealStroke(n) == n.stroke \notin {Absent, Str_none, Str_transparent}

\* The canonical-form policy as stated: no nesting, and one path or several
\* well-formed nodes without strokes
StatedCanonical(nodes) ==
    /\ \A n \in Range(nodes) : ~n.nested
    /\ \/ Len(nodes) = 1 /\ nodes[1].tag = "path"
       \/ /\ Len(nodes) > 1
          /\ \A n \in Range(nodes) : UsableFill(n) \/ RealStroke(n)
          /\ \A n \in Range(nodes) : ~RealStroke(n)

\* The same policy with the well-formedness demand lifted from line elements
CanonicalExceptLines(nodes) ==
    /\ \A n \in Range(nodes) : ~n.nested
    /\ \/ Len(nodes) = 1 /\ nodes[1].tag = "path"
       \/ /\ Len(nodes) > 1
          /\ \A n \in Range(nodes) : n.tag # "line" => UsableFill(n)
          /\ \A n \in Range(nodes) : ~RealStroke(n)

----------------------------------------------------------------------------
(* Claims *)

\* C1: the flag isSinglePath of every result computed by a parsing strategy
\* is true if and only if no principal node has child elements and either
\* there is exactly one principal node and it is a path, or there are
\* several, each declares a usable fill or a stroke, and none carries a
\* stroke other than none/transparent.
C1_CanonicalIffPolicy ==
    (Called /\ Strategy # "catch") =>
        (result.isSinglePath <=> StatedCanonical(PrincipalNodes(svgContent, domAvailable)))

\* What the code computes in place of C1: a line element without fill and
\* stroke does not count against the icon.
C1_CodePolicy ==
    (Called /\ Strategy # "catch") =>
        (result.isSinglePath <=> CanonicalExceptLines(PrincipalNodes(svgContent, domAvailable)))

\* C2: no request dispatched to the build pipeline carries an icon whose
\* isSinglePath is false, whether it was submitted by the UI's Add action
\* and the ADD_ICONS handler or by the add-to-design-system command.
C2_OnlyCanonicalDispatched ==
    \A r \in Range(dispatched) : \A icon \in Range(r.icons) : icon.isSinglePath

\* What holds of C2 on the path through the UI
C2_OnlyCanonicalDispatchedByUi ==
    command = "design-system-icons" => C2_OnlyCanonicalDispatched

\* A top-level rectangle that is white-filled or exactly 24x24
StatedHelperRect(e) ==
    /\ e.tag = "rect"
    /\ \/ getAttribute(e, "fill") = Str_ffffff
       \/ getAttribute(e, "width") = Str_24 /\ getAttribute(e, "height") = Str_24

\* Element i of the markup lies wholly inside the text that is left after the cut
Intact(m, i) == m.cut <= 1 \/ i < Len(m.elems)

\* The markup without its i-th top-level element
WithoutElem(m, i) ==
    [m EXCEPT !.elems = SubSeq(m.elems, 1, i - 1) \o SubSeq(m.elems, i + 1, Len(m.elems))]

HelperRectAt(m, i) == StatedHelperRect(m.elems[i]) /\ Intact(m, i)

EmitsRect24(children) ==
    \E c \in Range(children) :
        /\ c.tag = "rect"
        /\ \E t \in Range(c.items) : t.k = "attr" /\ t.a = "width" /\ t.b = Str_24
        /\ \E t \in Range(c.items) : t.k = "attr" /\ t.a = "height" /\ t.b = Str_24

Malformed(m) == m # NotAString /\ (m.wrap = "bare" \/ m.cut > 0)

\* C4: for every malformed markup (a truncated text, a text without an svg
\* root) the call returns a result whose isSinglePath is false.
C4_MalformedNotCanonical ==
    (Called /\ Malformed(svgContent)) => ~result.isSinglePath

\* The identifier as the claims state it: the name without its hyphens, with
\* the character that starts each hyphen-separated segment upper-cased,
\* followed by "Icon".
RECURSIVE PascalFrom(_, _)
PascalFrom(name, i) ==
    IF i > Len(name) THEN <<>>
    ELSE IF name[i] = "-" THEN PascalFrom(name, i + 1)
    ELSE <<IF i = 1 \/ name[i - 1] = "-" THEN UpperChar(name[i]) ELSE name[i]>>
         \o PascalFrom(name, i + 1)

StatedIdentifier(name) == PascalFrom(name, 1) \o Str_Icon

\* The parts of the fallback the claim and the code agree on
FallbackShape ==
    /\ result.jsx = Shell("jsx", Str_defaultViewBox, <<PlaceholderPath>>)
    /\ ~result.isSinglePath
    /\ result.componentName = StatedIdentifier(iconName)
    /\ result.reactCode.componentName = result.componentName
    /\ result.reactCode.body = result.jsx

NestingPrincipalAt(m, i) ==
    /\ m.elems[i].tag \in {"path", "line", "circle", "rect", "ellipse", "polygon", "polyline"}
    /\ ~isHelperElement(m.elems[i])
    /\ Len(m.elems[i].kids) > 0
    /\ Intact(m, i)

\* C7: when a principal element of the markup contains child elements, the
\* result has isSinglePath false and the warning names the nesting, whichever
\* strategy computed the result.
C7_NestedNeverCanonical ==
    (Called /\ Strategy # "catch"
       /\ \E i \in 1..Len(svgContent.elems) : NestingPrincipalAt(svgContent, i))
    => (~result.isSinglePath /\ warning.nested = "true")

\* C8: whenever isSinglePath is true, no principal node carries a stroke
\* other than none/transparent and none has child elements.
C8_CanonicalIsFillOnly ==
    (Called /\ result.isSinglePath) =>
        \A n \in Range(PrincipalNodes(svgContent, domAvailable)) :
            ~RealStroke(n) /\ ~n.nested

\* C9: the componentName of every result, normal or fallback, is the
\* hyphen-separated segments of the name, each with its first character
\* upper-cased and the rest unchanged, followed by "Icon".
C9_IdentifierDerivation ==
    Called => result.componentName = StatedIdentifier(iconName)

\* C9 witness: a two-segment name whose second segment keeps an upper-case
\* character after its first, returned by a fallback call.
C9_Witness ==
    /\ Called
    /\ Strategy = "catch"
    /\ iconName = <<"a", "-", "a", "B">>
    /\ result.componentName = <<"A", "A", "B", "I", "c", "o", "n">>

\* The items (attributes) of the selected elements before the colour rewrite
SelectedItems(m, dom) ==
    IF StrategyUsed(m, dom) = "dom"
    THEN LET main == DomMainElements(querySelectorSvg(m))
         IN [i \in 1..Len(main) |-> AttrTokens(main[i].attrs)]
    ELSE LET all == RegexAllElements(MarkupText(m))
         IN [i \in 1..Len(all) |-> SubSeq(all[i], 2, Len(all[i]) - 1)]

\* The rewrite as stated: equality with none, transparent, rgba(0,0,0,0);
\* prefix url(, hsl(, rgb(
StatedRewrite(name, value) ==
    IF /\ name \in {"fill", "stroke"}
       /\ value \notin {Str_none, Str_transparent, Str_rgba0}
       /\ ~StartsWith(value, Str_url) /\ ~StartsWith(value, Str_hsl)
       /\ ~StartsWith(value, Str_rgb)
    THEN Str_currentColor
    ELSE value

\* C10: every emitted element carries exactly the attributes of its input
\* element, a fill or stroke value being currentColor when the input value is
\* not none, transparent, rgba(0,0,0,0) and does not start with url(, hsl(
\* or rgb(, and every other value unchanged; under either strategy.
C10_ColourRewrite ==
    (Called /\ Strategy # "catch") =>
        LET items == SelectedItems(svgContent, domAvailable)
            out == result.jsx.children
        IN /\ Len(out) = Len(items)
           /\ \A i \in 1..Len(items) :
                out[i].items =
                    [j \in 1..Len(items[i]) |->
                        IF items[i][j].k = "attr"
                        THEN Tok("attr", items[i][j].a,
                                 StatedRewrite(items[i][j].a, items[i][j].b))
                        ELSE items[i][j]]

\* What holds of C10 under the structured strategy alone
C10_ColourRewriteDom == Strategy = "dom" => C10_ColourRewrite

----------------------------------------------------------------------------
(* The two strategies compared *)

\* A complete <svg> document whose top-level elements are all self-closing
SelfClosingDocument(m) ==
    /\ m.wrap = "svg"
    /\ m.cut = 0
    /\ \A i \in 1..Len(m.elems) : m.elems[i].form = "selfclosing"

\* The emitted shapes without their layout
ShapeSet(r) == { [tag |-> c.tag, items |-> c.items] : c \in Range(r.jsx.children) }

\* C11: for a markup whose shapes are self-closing direct children of the
\* svg root, the result of the strategy that ran and the result of the other
\* strategy have the same viewBox, the same set of emitted shapes and the
\* same isSinglePath.
C11_StrategiesAgree ==
    (Called /\ SelfClosingDocument(svgContent)) =>
        LET other == processSvgToReact(svgContent, iconName, ~domAvailable)
        IN /\ result.jsx.viewBox = other.jsx.viewBox
           /\ ShapeSet(result) = ShapeSet(other)
           /\ result.isSinglePath = other.isSinglePath

\* What holds of C11: the two strategies read the same viewBox
C11_SameViewBox ==
    (Called /\ SelfClosingDocument(svgContent)) =>
        result.jsx.viewBox =
            processSvgToReact(svgContent, iconName, ~domAvailable).jsx.viewBox

SupportedTags == {"path", "line", "circle", "rect", "ellipse", "polygon", "polyline"}

\* The text-pattern strategy drops the element as a helper
RegexDropsHelper(e) ==
    e.tag = "rect" /\ RegexIsHelperRect(ElemTokens(e))

\* C12: a self-closing top-level element of a supported tag is dropped as a
\* helper by the text-pattern strategy exactly when the structured strategy
\* drops it as a helper (white rectangle, 24x24 rectangle, id or class
\* containing helper/background/bg).
C12_SameHelperRule ==
    (Called /\ SelfClosingDocument(svgContent)) =>
        \A e \in Range(svgContent.elems) :
            e.tag \in SupportedTags => (RegexDropsHelper(e) <=> isHelperElement(e))

\* What holds of C12: the rule agrees on rectangles
C12_SameHelperRuleForRects ==
    (Called /\ SelfClosingDocument(svgContent)) =>
        \A e \in Range(svgContent.elems) :
            e.tag = "rect" => (RegexDropsHelper(e) <=> isHelperElement(e))

\* A text that parses to a document with an <svg> root
HasSvgRoot(m) == m.wrap = "svg" /\ m.cut = 0

\* C13 as stated: whenever DOMParser is available the text-pattern strategy
\* does not run, whatever the markup.
C13_RegexOnlyWithoutDomParser ==
    (Called /\ domAvailable) => Strategy # "regex"

\* C13 as amended: with DOMParser available and an svg root in the parsed
\* document the emitted elements are those of the structured strategy; for
\* every other text they are those of the text-pattern strategy.
C13_RegexWithoutParserOrRoot ==
    (Called /\ svgContent # NotAString) =>
        IF domAvailable /\ HasSvgRoot(svgContent)
        THEN /\ result.jsx.children =
                  DomChildElements(DomMainElements(querySelectorSvg(svgContent)))
             /\ result.isSinglePath = DomIsSinglePath(DomMainElements(querySelectorSvg(svgContent)))
        ELSE /\ result.jsx.children =
                  RegexChildElements(RegexAllElements(MarkupText(svgContent)))
             /\ result.isSinglePath = RegexIsSinglePath(RegexAllElements(MarkupText(svgContent)))

\* C13 witness: DOMParser is available, the text has no svg root, and the
\* call has returned the elements the regexes matched.
C13_Witness ==
    /\ Called
    /\ domAvailable
    /\ svgContent.wrap = "bare"
    /\ Len(result.jsx.children) = 2
    /\ result.jsx.children[2].layout = "raw"

\* The non-helper top-level elements of a supported tag
StatedPrincipal(m) ==
    SelectSeq(m.elems, LAMBDA e : e.tag \in SupportedTags /\ ~isHelperElement(e))

AttrNames(items) == [i \in 1..Len(items) |-> items[i].a]

\* The element is among the emitted children
EmittedFor(e, children) ==
    \E c \in Range(children) :
        c.tag = e.tag /\ AttrNames(c.items) = AttrNames(AttrTokens(e.attrs))

\* C14: every non-helper top-level element of one of the seven supported
\* tags is emitted and counted, also when other such elements are present.
C14_SevenTagsPrincipal ==
    (Called /\ Strategy # "catch" /\ SelfClosingDocument(svgContent)) =>
        /\ \A e \in Range(StatedPrincipal(svgContent)) : EmittedFor(e, result.jsx.children)
        /\ Len(result.jsx.children) >= Len(StatedPrincipal(svgContent))

\* What holds of C14: the same for the six tags other than rect
C14_SixTagsPrincipal ==
    (Called /\ Strategy # "catch" /\ SelfClosingDocument(svgContent)) =>
        \A e \in Range(StatedPrincipal(svgContent)) :
            e.tag # "rect" => EmittedFor(e, result.jsx.children)

\* An element as the emitted markup identifies it: tag and attribute names
Key(tag, items) == [tag |-> tag, names |-> AttrNames(items)]

DocumentKeys(elems) == [i \in 1..Len(elems) |-> Key(elems[i].tag, AttrTokens(elems[i].attrs))]

EmittedKeys(children) == [i \in 1..Len(children) |-> Key(children[i].tag, children[i].items)]

\* C16: when no top-level element of a supported tag is left after the
\* helpers are removed, the emitted elements are exactly the non-helper
\* top-level elements, whatever their tag, in document order; none when
\* every top-level element is a helper.
C16_SafetyNet ==
    (Called /\ Strategy # "catch" /\ HasSvgRoot(svgContent)
            /\ StatedPrincipal(svgContent) = <<>>) =>
        EmittedKeys(result.jsx.children) =
            DocumentKeys(SelectSeq(svgContent.elems, LAMBDA e : ~isHelperElement(e)))

\* What holds of C16: the same under the structured strategy
C16_SafetyNetDom == Strategy = "dom" => C16_SafetyNet

RECURSIVE IsSubseq(_, _)
\* s can be obtained from t by deleting elements
IsSubseq(s, t) ==
    IF s = <<>> THEN TRUE
    ELSE IF t = <<>> THEN FALSE
    ELSE IF Head(s) = Head(t) THEN IsSubseq(Tail(s), Tail(t))
    ELSE IsSubseq(s, Tail(t))

\* C17 as stated: the emitted elements, in jsx and in previewSvg, are in the
\* relative order their elements have in the input, none twice.
C17_DocumentOrder ==
    (Called /\ Strategy # "catch" /\ SelfClosingDocument(svgContent)) =>
        /\ IsSubseq(EmittedKeys(result.jsx.children), DocumentKeys(svgContent.elems))
        /\ result.previewSvg.children = result.jsx.children

\* The slot of a tag in the text-pattern strategy's list
GroupOf(tag) ==
    CASE tag = "path" -> 1
      [] tag = "circle" -> 2
      [] tag = "rect" -> 3
      [] OTHER -> 4

\* C17 as amended: under the structured strategy the emitted elements are in
\* document order; under the text-pattern strategy they are grouped by tag
\* (path, circle, rect, the others) and in document order within each group;
\* jsx and previewSvg list the same elements and none twice.
C17_OrderWithinGroups ==
    (Called /\ Strategy # "catch" /\ SelfClosingDocument(svgContent)) =>
        LET out == EmittedKeys(result.jsx.children)
            doc == DocumentKeys(svgContent.elems)
            Group(seq, g) == SelectSeq(seq, LAMBDA k : GroupOf(k.tag) = g)
        IN /\ result.previewSvg.children = result.jsx.children
           /\ Len(out) <= Len(doc)
           /\ IF Strategy = "dom"
              THEN IsSubseq(out, doc)
              ELSE /\ \A i \in 1..Len(out) : \A j \in i..Len(out) :
                         GroupOf(out[i].tag) <= GroupOf(out[j].tag)
                   /\ \A g \in 1..4 : IsSubseq(Group(out, g), Group(doc, g))

\* C17 witness: no DOMParser, a circle before a path in the input, and the
\* path before the circle in the result.
C17_Witness ==
    /\ Called
    /\ ~domAvailable
    /\ SelfClosingDocument(svgContent)
    /\ Len(svgContent.elems) = 2
    /\ svgContent.elems[1].tag = "circle"
    /\ svgContent.elems[2].tag = "path"
    /\ Len(result.jsx.children) = 2
    /\ result.jsx.children[1].tag = "path"
    /\ result.jsx.children[2].tag = "circle"

\* C18: in every result, the fallback included, previewSvg has fixed numeric
\* width and height and no template placeholder, jsx carries the
\* placeholders, and both wrap the same child elements and viewBox.
C18_PreviewIsPlainMarkup ==
    Called =>
        /\ result.previewSvg.kind = "preview"
        /\ result.jsx.kind = "jsx"
        /\ result.previewSvg.children = result.jsx.children
        /\ result.previewSvg.viewBox = result.jsx.viewBox

\* What holds of C18: the same for every result but the fallback
C18_PreviewIsPlainMarkupParsed == Strategy # "catch" => C18_PreviewIsPlainMarkup

\* C19: a principal node of a supported tag that has neither a usable fill
\* nor a stroke makes isSinglePath false for the whole icon.
C19_UnpaintedNotCanonical ==
    (Called /\ Strategy # "catch") =>
        ((\E n \in Range(PrincipalNodes(svgContent, domAvailable)) :
              n.tag \in SupportedTags /\ ~UsableFill(n) /\ ~RealStroke(n))
         => ~result.isSinglePath)

\* C19 for several principal nodes: the single bare path set aside
C19_UnpaintedNotCanonicalAmongSeveral ==
    Len(PrincipalNodes(svgContent, domAvailable)) > 1 => C19_UnpaintedNotCanonical

\* The bytes of a string in the file the workflow reads (UTF-8)
Utf8Char(code) ==
    IF code < 128 THEN <<code>>
    ELSE IF code < 2048 THEN <<192 + (code \div 64), 128 + (code % 64)>>
    ELSE <<224 + (code \div 4096), 128 + ((code \div 64) % 64), 128 + (code % 64)>>

RECURSIVE Utf8(_)
Utf8(str) == IF str = <<>> THEN <<>> ELSE Utf8Char(Head(str)) \o Utf8(Tail(str))

Encoded == jsonString # NoString

\* C15: the `icons` input of a dispatched chunk is the standard base64 of the
\* chunk's JSON string and decodes to exactly that string, for every length,
\* whether btoa or the manual encoder produced it.
C15_Base64RoundTrip ==
    Encoded =>
        /\ base64Payload = StandardBase64(Utf8(jsonString))
        /\ Base64Decode(base64Payload) = Utf8(jsonString)

\* C15 for strings of ASCII characters only
C15_Base64RoundTripAscii ==
    (Encoded /\ \A i \in 1..Len(jsonString) : jsonString[i] < 128) =>
        Base64Decode(base64Payload) = jsonString

\* What holds of C15: ASCII strings whose length is a multiple of three, and
\* ASCII strings encoded by btoa
C15_Base64RoundTripWholeGroups ==
    (Encoded /\ (\A i \in 1..Len(jsonString) : jsonString[i] < 128)
             /\ (btoaAvailable \/ Len(jsonString) % 3 = 0)) =>
        /\ base64Payload = StandardBase64(jsonString)
        /\ Base64Decode(base64Payload) = jsonString

Outlined == outlineElement # NoElement

\* The element's stroke attribute is present and neither none nor transparent
HasRealStroke(element) ==
    getAttribute(element, "stroke") \notin {Absent, <<>>, Str_none, Str_transparent}

OutlinedTags == {"line", "circle", "rect"}

\* C20 as stated: strokeToOutline returns null for an element without a
\* stroke attribute, with stroke none or transparent, or of a tag it does
\* not handle (path, polygon, polyline, ellipse), and path data only for a
\* line, circle or rect with a real stroke.
C20_NullUnlessOutlined ==
    Outlined =>
        (outlinePath # Null <=>
            (HasRealStroke(outlineElement) /\ outlineElement.tag \in OutlinedTags))

\* C20 as amended: strokeToOutline returns null for an element without a
\* real stroke; for a stroked line, circle or rect it returns computed path
\* data; for a stroked element of any other tag it returns the element's own
\* d attribute unchanged, which is null only when the element has none.
C20_OwnPathDataForOthers ==
    Outlined =>
        IF ~HasRealStroke(outlineElement) THEN outlinePath = Null
        ELSE IF outlineElement.tag \in OutlinedTags
             THEN /\ outlinePath.kind = "commands"
                  /\ outlinePath.commands[1].c = "M"
                  /\ outlinePath.commands[Len(outlinePath.commands)].c = "Z"
             ELSE IF hasAttribute(outlineElement, "d")
             THEN /\ outlinePath.kind = "text"
                  /\ outlinePath.text = getAttribute(outlineElement, "d")
             ELSE outlinePath = Null

\* C20 witness: a stroked path with a d attribute, and the call has
\* returned that d.
C20_Witness ==
    /\ Outlined
    /\ outlineElement.tag = "path"
    /\ getAttribute(outlineElement, "stroke") = Str_000000
    /\ outlinePath.kind = "text"
    /\ outlinePath.text = Str_pathData

\* A closed circular sub-path in the commands from position i on: M, two
\* arcs of the doubled radius rr with the given sweep flag around the doubled
\* centre (cx, cy), Z
IsCircleAt(commands, i, cx, cy, rr, sweep) ==
    /\ Len(commands) >= i + 3
    /\ commands[i] = [c |-> "M", args |-> <<cx, cy - rr>>]
    /\ commands[i + 1] = [c |-> "A", args |-> <<rr, rr, 0, 1, sweep, cx, cy + rr>>]
    /\ commands[i + 2] = [c |-> "A", args |-> <<rr, rr, 0, 1, sweep, cx, cy - rr>>]
    /\ commands[i + 3] = [c |-> "Z", args |-> <<>>]

StrokedCircleOutlined ==
    /\ Outlined
    /\ outlineElement.tag = "circle"
    /\ HasRealStroke(outlineElement)

\* C21: for a stroked circle of radius r and stroke width w, the outline is
\* one closed sub-path of radius r + w/2 when r - w/2 <= 0, and otherwise
\* exactly two closed sub-paths around the same centre, the outer of radius
\* r + w/2 and the inner of radius r - w/2, with opposite sweep flags.
C21_CircleOutline ==
    StrokedCircleOutlined =>
        LET r == parseFloat(getAttribute(outlineElement, "r"))
            w == IF hasAttribute(outlineElement, "stroke-width")
                 THEN parseFloat(getAttribute(outlineElement, "stroke-width")) ELSE 1
            cx == 2 * parseFloat(getAttribute(outlineElement, "cx"))
            cy == 2 * parseFloat(getAttribute(outlineElement, "cy"))
            commands == outlinePath.commands
        IN /\ outlinePath.kind = "commands"
           /\ IF 2 * r - w <= 0
              THEN /\ Len(commands) = 4
                   /\ \E sweep \in {0, 1} : IsCircleAt(commands, 1, cx, cy, 2 * r + w, sweep)
              ELSE /\ Len(commands) = 8
                   /\ \E sweep \in {0, 1} :
                        /\ IsCircleAt(commands, 1, cx, cy, 2 * r + w, sweep)
                        /\ IsCircleAt(commands, 5, cx, cy, 2 * r - w, 1 - sweep)

\* C21 witness: a circle of radius 8 with stroke width 4 has been outlined
\* as a ring of two sub-paths
C21_Witness ==
    /\ StrokedCircleOutlined
    /\ getAttribute(outlineElement, "r") = <<"8">>
    /\ getAttribute(outlineElement, "stroke-width") = <<"4">>
    /\ Len(outlinePath.commands) = 8

Flattened == flattenResult # NotCalled /\ flattenResult.kind = "flattened"

StrokeAttributes == {"stroke", "stroke-width", "stroke-linecap", "stroke-linejoin"}

\* The path data of one input element, as the claim reads it: the d of a
\* path, the outline of a stroked line, circle or rect, nothing otherwise
StatedPathData(e) ==
    IF e.tag \in OutlinedTags /\ HasRealStroke(e)
    THEN <<strokeToOutline(e)>>
    ELSE IF hasAttribute(e, "d") THEN <<[kind |-> "text", text |-> getAttribute(e, "d")]>>
    ELSE <<>>

RECURSIVE StatedJoin(_)
StatedJoin(elems) ==
    IF elems = <<>> THEN <<>>
    ELSE (IF isHelperElement(Head(elems)) THEN <<>> ELSE StatedPathData(Head(elems)))
         \o StatedJoin(Tail(elems))

\* C22: when flattenSvgPaths combines the path data of two or more elements,
\* the result holds a single path element whose fill is currentColor, whose
\* fill-rule is evenodd, which has no stroke, stroke-width, stroke-linecap or
\* stroke-linejoin attribute, and whose d is the elements' path data joined
\* in element order.
C22_FlattenedPath ==
    Flattened =>
        LET path == flattenResult.children[1]
        IN /\ Len(flattenResult.children) = 1
           /\ path.tag = "path"
           /\ getAttribute(path, "fill") = Str_currentColor
           /\ getAttribute(path, "fill-rule") = Str_evenodd
           /\ \A name \in StrokeAttributes : ~hasAttribute(path, name)
           /\ getAttribute(path, "d").parts = StatedJoin(flattenContent.elems)
           /\ Len(getAttribute(path, "d").parts) >= 2

\* C22 witness: a stroked circle and a path have been combined, the
\* circle's outline first
C22_Witness ==
    /\ Flattened
    /\ Len(flattenContent.elems) = 2
    /\ flattenContent.elems[1].tag = "circle"
    /\ flattenContent.elems[2].tag = "path"
    /\ getAttribute(flattenResult.children[1], "d").parts[1].kind = "commands"
    /\ getAttribute(flattenResult.children[1], "d").parts[2].kind = "text"

ChunksProcessed == chunkTally # NotCalled

RECURSIVE Concat(_)
Concat(seqs) == IF seqs = <<>> THEN <<>> ELSE Head(seqs) \o Concat(Tail(seqs))

\* C24: the chunks built by processIconsInChunks, concatenated in order, are
\* exactly the input icon list; no chunk is empty; an empty input gives no
\* chunks.
C24_ChunksPartitionInput ==
    ChunksProcessed =>
        /\ Concat(chunksBuilt) = chunkIcons
        /\ \A i \in 1..Len(chunksBuilt) : Len(chunksBuilt[i]) > 0
        /\ (chunkIcons = <<>> => chunksBuilt = <<>>)

\* C24 witness: three icons have been split into two chunks
C24_Witness ==
    /\ ChunksProcessed
    /\ Len(chunkIcons) = 3
    /\ Len(chunksBuilt) = 2
    /\ Len(chunksBuilt[1]) = 2

RECURSIVE CountIcons(_)
CountIcons(requests) ==
    IF requests = <<>> THEN 0 ELSE Len(Head(requests).icons) + CountIcons(Tail(requests))

\* C25: after all chunks are processed, successCount + errorCount is the
\* number of input icons whatever the mix of oversize chunks, non-OK
\* responses and thrown errors, and exactly one final event is emitted:
\* SHOW_SUCCESS if successCount > 0, SHOW_ERROR otherwise.
C25_EveryIconCountedOnce ==
    ChunksProcessed =>
        /\ chunkTally.successCount + chunkTally.errorCount = Len(chunkIcons)
        /\ chunkTally.successCount =
              CountIcons(SelectSeq(chunkTally.requests, LAMBDA q : q.outcome = "ok"))
        /\ chunkEvent.type = IF chunkTally.successCount > 0 THEN "SHOW_SUCCESS" ELSE "SHOW_ERROR"

\* C25 witness: one chunk was too long, one request succeeded and one threw
C25_Witness ==
    /\ ChunksProcessed
    /\ Len(chunksBuilt) = 3
    /\ Len(chunkTally.requests) = 2
    /\ chunkTally.requests[1].outcome = "ok"
    /\ chunkTally.requests[2].outcome = "throw"
    /\ chunkTally.errorCount = 2
    /\ chunkEvent.type = "SHOW_SUCCESS"

\* C30: a chunk of more than one icon has estimated sizes summing to at most
\* MAX_PAYLOAD_SIZE; a chunk whose JSON is longer than 60000 characters is
\* not sent and all its icons are counted as errors.
C30_ChunkSizeLimits ==
    ChunksProcessed =>
        LET oversize == SelectSeq(chunksBuilt, LAMBDA c : JsonLength(c) > MaxJsonLength)
            failed == SelectSeq(chunkTally.requests, LAMBDA q : q.outcome # "ok")
        IN /\ \A i \in 1..Len(chunksBuilt) :
                Len(chunksBuilt[i]) > 1 => SumSizes(chunksBuilt[i]) <= MAX_PAYLOAD_SIZE
           /\ \A i \in 1..Len(chunkTally.requests) :
                JsonLength(chunkTally.requests[i].icons) <= MaxJsonLength
           /\ Len(chunkTally.requests) + Len(oversize) = Len(chunksBuilt)
           /\ chunkTally.errorCount = Len(Concat(oversize)) + CountIcons(failed)

\* C30 witness: a chunk of two icons of 55000 characters in all was sent,
\* and the chunk of one icon of 61000 characters was not
C30_Witness ==
    /\ ChunksProcessed
    /\ Len(chunksBuilt) = 2
    /\ SumSizes(chunksBuilt[1]) = MAX_PAYLOAD_SIZE
    /\ Len(chunksBuilt[1]) = 2
    /\ chunksBuilt[2][1].size = 61000
    /\ Len(chunkTally.requests) = 1
    /\ chunkTally.errorCount = 1

Reported == hostNode # NoElement

\* The host's judgement as the claim words it
StatedNeedsFlattening(node) ==
    LET vectorish == { i \in 1..Len(node.children) :
                          node.children[i].type \in {"VECTOR", "BOOLEAN_OPERATION", "LINE"} }
    IN \/ Cardinality(vectorish) > 1
       \/ /\ Cardinality(vectorish) = 1
          /\ \E i \in vectorish : node.children[i].type \in {"VECTOR", "LINE"}
                                  /\ node.children[i].strokes > 0
       \/ \E i \in 1..Len(node.children) : node.children[i].kids > 0

\* C29: for a FRAME/COMPONENT/INSTANCE node the host judges to need
\* flattening, the reported isSinglePath is false whatever processSvgToReact
\* returned; for a VECTOR or BOOLEAN_OPERATION node it is the value
\* processSvgToReact returned; the icon's isSinglePath always equals
\* processedIcon.isSinglePath.
C29_HostOverride ==
    Reported =>
        LET returned == processSvgToReact(hostNode.svg, <<"a">>, FALSE).isSinglePath
        IN /\ (hostNode.type \in FrameTypes /\ StatedNeedsFlattening(hostNode))
                 => reportedIcon.isSinglePath = FALSE
           /\ hostNode.type \in {"VECTOR", "BOOLEAN_OPERATION"}
                 => reportedIcon.isSinglePath = returned
           /\ reportedIcon.isSinglePath = reportedIcon.processedIcon.isSinglePath

\* C29 witness: a frame of two vectors whose export processSvgToReact calls
\* a single path is reported with isSinglePath false
C29_Witness ==
    /\ Reported
    /\ hostNode.type = "FRAME"
    /\ Len(hostNode.children) = 2
    /\ hostNode.children[1].type = "VECTOR"
    /\ hostNode.children[2].type = "VECTOR"
    /\ processSvgToReact(hostNode.svg, <<"a">>, FALSE).isSinglePath
    /\ reportedIcon.isSinglePath = FALSE

\* C29 witness of the second case: a stroked VECTOR node is reported with
\* the flag processSvgToReact returned, true
C29_WitnessVector ==
    /\ Reported
    /\ hostNode.type = "VECTOR"
    /\ hostNode.strokes > 0
    /\ reportedIcon.isSinglePath = TRUE

----------------------------------------------------------------------------
(* Claims about a session of the design-system-icons command *)

\* The responses a step of the main thread emits
NewlyEmitted ==
    IF Len(toUi') > Len(toUi) THEN SubSeq(toUi', Len(toUi) + 1, Len(toUi')) ELSE <<>>

IsResponse(e) == e.type = "GET_SELECTED_ICONS"

\* A step in which the run of slot k reaches its end
RunEnds(k) == runs[k] # NoRun /\ runs'[k] = NoRun /\ command' = command

\* A step in which a call of processSelection() emits or suspends
ProcessSelectionCalled ==
    \/ \E k \in 1..RunSlots : runs[k] = NoRun /\ runs'[k] # NoRun
    \/ NewlyEmitted # <<>> /\ IsResponse(NewlyEmitted[Len(NewlyEmitted)])

CurrentEmitted ==
    /\ selection # <<>>
    /\ lastProcessedIcons = RunIcons(selection, domAvailable)

\* C23: once a response computed from the current selection has been
\* emitted, and while that selection stays, no response computed from an
\* earlier selection is emitted and lastProcessedIcons keeps the icons of the
\* current selection.
C23_NoOutOfDateResult ==
    [][(CurrentEmitted /\ selection' = selection /\ command' = command)
        => /\ lastProcessedIcons' = lastProcessedIcons
           /\ \A n \in DOMAIN NewlyEmitted :
                 IsResponse(NewlyEmitted[n])
                 => NewlyEmitted[n].icons \in {<<>>, lastProcessedIcons}]_vars

\* A step in which main takes an ADD_ICONS request from the UI
AddIconsTaken ==
    /\ Open
    /\ toMain # <<>>
    /\ Head(toMain).type = "ADD_ICONS"
    /\ toMain' = Tail(toMain)
    /\ command' = command

\* C26: every ADD_ICONS request the UI emits during a session is answered by
\* exactly one SHOW_SUCCESS or SHOW_ERROR: the step in which main takes the
\* request emits that one event.
C26_EveryAddIconsAnswered ==
    [][AddIconsTaken
        => /\ Len(NewlyEmitted) = 1
           /\ NewlyEmitted[1].type \in {"SHOW_SUCCESS", "SHOW_ERROR"}]_vars

\* C27: after Add has set isAddingToDesignSystem, the flag returns to false.
C27_AddingFlagCleared == isAddingToDesignSystem ~> ~isAddingToDesignSystem

====
